---- MODULE Spec2Model ----
(***************************************************************************)
(* A model of the tile38 request controller (pkg/controller): the command  *)
(* router handleInputCommand with its authentication, lock selection,      *)
(* leader / read-only / catch-up gates and post-handler AOF write, the     *)
(* dispatch table Controller.command, and the start of the AOF shrinker.   *)
(*                                                                         *)
(* Spec      one client connection; a whole message is handled in one      *)
(*           step (handleInputCommand from entry to return), over every    *)
(*           command name of the router.                                   *)
(* SpecLock  several goroutines (client messages and aofshrink) that       *)
(*           interleave at the granularity of c.mu: acquire, handler,      *)
(*           writeAOF, release.                                            *)
(***************************************************************************)
EXTENDS Integers, Sequences, FiniteSets, TLC

(***************************************************************************)
(* Bounds of the model.                                                    *)
(***************************************************************************)
\* At most MaxAof records are appended to the live AOF in a behaviour of
\* Spec.
MaxAof == 1
\* At most MaxWrites write-class messages are handled in a behaviour of
\* SpecLock.
MaxWrites == 2

(***************************************************************************)
(* Universes.                                                              *)
(***************************************************************************)
\* The collection key and id the modelled commands address.  They are the
\* first key and id MASSINSERT writes (dev.go:97,101), so that client
\* commands and MASSINSERT meet in the same store cell.
Key == "mi:0"
Ids == {"0"}
HookNames == {"h"}
NoObj == "nil"
\* Stored object values: a point, a plain string, a JSON string document and
\* that document with the JDEL path removed.
ObjVals == {"point", "string", "json", "json-"}

\* Passwords are sequences of characters, so that strings.TrimSpace is a
\* computation and not the identity.
NoPass == << >>
RequirePassChoices == {NoPass, <<"s">>}
Passwords == {NoPass, <<"s">>, <<" ", "s">>, <<"x">>}

ConnTypes == {"resp", "http"}

\* The goroutines of SpecLock: client connections and aofshrink goroutines.
Clients == {"c1", "c2"}
Shrinkers == {"s1", "s2"}

(***************************************************************************)
(* Command names, grouped as the lock-selection switch groups them.        *)
(***************************************************************************)
WriteCmds == {"set", "del", "drop", "fset", "flushdb", "sethook", "pdelhook",
              "delhook", "expire", "persist", "jset", "pdel"}
ScriptWriteCmds == {"eval", "evalsha"}
ReadCmds == {"get", "keys", "scan", "nearby", "within", "intersects", "hooks",
             "search", "ttl", "bounds", "server", "info", "type", "jget",
             "evalro", "evalrosha"}
SystemCmds == {"follow", "readonly", "config"}
NoLockCmds == {"output", "echo", "evalna", "evalnasha"}
\* Names that fall to the default arm of the lock-selection switch.
DefaultCmds == {"jdel", "stats", "aof", "aofmd5", "gc", "script", "auth",
                "bogus"}
Commands == WriteCmds \cup ScriptWriteCmds \cup ReadCmds \cup SystemCmds
            \cup NoLockCmds \cup DefaultCmds
            \cup {"ping", "massinsert", "sleep", "shutdown", "aofshrink",
                  "client"}

\* The second token of a message, per command.
ArgsOf(cmd) ==
    CASE cmd \in {"sethook", "delhook", "pdelhook", "hooks"} -> HookNames
      [] cmd = "follow" -> {"leader", "no one"}
      [] cmd = "readonly" -> {"", "yes", "no", "bogus"}
      [] cmd = "client" -> {"getname", "kill"}
      [] cmd = "massinsert" -> {"0", "1"}
      [] cmd = "config" -> {"", "get"}
      [] cmd \in {"set", "del", "fset", "expire", "persist", "jset", "jdel",
                  "get", "ttl", "jget"} -> Ids
      [] OTHER -> {""}

VARIABLES
    \* process-wide settings
    devMode,        \* core.DevMode
    appendonly,     \* core.AppendOnly == "yes", i.e. c.aof != nil
    requirePass,    \* c.config.requirePass()
    followHost,     \* c.config.followHost()
    readOnly,       \* c.config.readOnly()
    \* Controller fields
    fcuponce,       \* follow caught up once
    cols,           \* data collections: the ids of collection Key
    expires,        \* ids of Key that carry a deadline
    hooks,          \* hook names
    aof,            \* the records of the live AOF file
    shrinking,      \* aof shrinking flag
    shrinklog,      \* aof shrinking log
    alive,          \* FALSE once log.Fatal ended the process
    \* the client connection
    connOpen,       \* the socket is open
    authenticated,  \* conn.Authenticated
    out             \* the message last handled, what went wrong while it
                    \* ran, its reply, the error its handler returned and
                    \* the events of handling it, in order; Idle once the
                    \* client has read the reply
VARIABLES
    \* SpecLock only
    mu,             \* c.mu: the exclusive holder and the shared holders
    pc,             \* where each client goroutine is in handleInputCommand
    cur,            \* the message each client goroutine is handling
    spc,            \* where each aofshrink goroutine is
    shrinkfile,     \* the records of the appendonly.aof-shrink file
    applied,        \* the write-class commands whose handler succeeded, in
                    \* the order the handlers ran
    journal,        \* the records writeAOF appended, in order
    writes          \* write-class messages handled so far

VARIABLES
    \* SpecHooks only
    hreg,           \* c.hooks: the slot of the hook object of each name, 0
                    \* for a name that is not registered
    hobj,           \* the hook objects, by slot
    hcols,          \* c.hookcols: the hook of each key and name
    hout,           \* the hook command last handled, its reply and its
                    \* calls of Signal, Close and Open, in order
    hshrink         \* the pass of aofshrink over the hooks: the names
                    \* left and the records buffered
VARIABLES
    \* SpecQueue only
    queue,          \* the entries of queue.db under the index "hooks"
    qidx,           \* c.qidx: the index of the last entry
    task,           \* the delivery task of each hook: where it is, and in
                    \* a round the entries read, the entry and the endpoint
                    \* it is at and the ticks since the round began
    sent            \* the successful sends, in order
VARIABLES
    \* SpecScan only
    sw,             \* the scanWriter of the scan under way
    scan            \* cmdScan: where it is, its arguments, the objects
                    \* of the collection and those visited, and the foot
                    \* it wrote
VARIABLES
    \* SpecClient only
    conns,          \* c.conns and the socket of each connection: its id,
                    \* whether c.conns holds it and whether its socket
                    \* is open
    clientID,       \* clientID: the id of the connection opened last
    kill            \* the CLIENT command last handled: its caller, its
                    \* reply and the writes and closes of sockets it
                    \* made, in order
VARIABLES
    \* SpecLoops only
    stopFlags,      \* stopBackgroundExpiring, stopWatchingMemory, stopWatchingAutoGC
    loops,          \* each background loop: whether it runs, and the ticks of its
                    \* ticker it took with its stop flag set
    watch           \* c.config.autoGC() and maxMemory(), the seconds since the last
                    \* forced collection, and c.outOfMemory
VARIABLES
    \* SpecStore and SpecCopy only
    store,          \* c.cols and c.expires over several keys: the ids of each
                    \* collection, and the deadline of each id that has one
    cmu,            \* the holder of c.mu: nobody or aofshrink
    shr,            \* c.shrinking and c.shrinklog, the shrink file, and where
                    \* aofshrink is with its keys, nextkey, keysdone, nextid
                    \* and idsdone
    trail           \* for the properties: the ids held since the shrink began,
                    \* those copied with a deadline, the records the copy phase
                    \* wrote, the client writes so far, and the last command
                    \* with the deadlines it cleared
VARIABLES
    \* SpecManager only
    hk,             \* each hook: opened, closed, whether its manager holds h.mu,
                    \* where its manager is, and the entries of its round
    hq,             \* the entries of queue.db: the hook and the index of each
    ctl,            \* c.mu: its holder, the call on a hook the holder is at,
                    \* and the entries put so far
    hist            \* for the properties: the entries signalled, those taken by
                    \* a round of their hook, and those whose TTL elapsed
VARIABLES
    \* SpecQuery only
    qry             \* a query over a collection: the records, those nearestNeighbors collected,
                    \* the scanWriter and the records written

cfgVars == <<devMode, appendonly, requirePass>>
dataVars == <<followHost, readOnly, cols, expires, hooks, aof, shrinklog,
              alive, connOpen>>
lockVars == <<mu, pc, cur, spc, shrinkfile, applied, journal, writes>>
\* The variables of Spec and SpecLock.
coreVars ==
    <<cfgVars, dataVars, fcuponce, shrinking, authenticated, out, lockVars>>
hookVars == <<hreg, hobj, hcols, hout, hshrink>>
\* The variables added after SpecLock.
queueVars == <<queue, qidx, task, sent>>
scanVars == <<sw, scan>>
clientVars == <<conns, clientID, kill>>
loopsVars == <<stopFlags, loops, watch>>
copyVars == <<store, cmu, shr, trail>>
mgrVars == <<hk, hq, ctl, hist>>
qryVars == <<qry>>
extVars == <<hookVars, queueVars, scanVars, clientVars, loopsVars, copyVars, mgrVars, qryVars>>
\* What the actions of SpecHooks leave alone.
hookRest == <<coreVars, queueVars, scanVars, clientVars, loopsVars, copyVars, mgrVars, qryVars>>
\* What the actions of SpecQueue leave alone.
queueRest == <<coreVars, hookVars, scanVars, clientVars, loopsVars, copyVars, mgrVars, qryVars>>
\* What the actions of SpecScan leave alone.
scanRest == <<coreVars, hookVars, queueVars, clientVars, loopsVars, copyVars, mgrVars, qryVars>>
\* What the actions of SpecClient leave alone.
clientRest == <<coreVars, hookVars, queueVars, scanVars, loopsVars, copyVars, mgrVars, qryVars>>
\* What the actions of SpecLoops leave alone.
loopsRest == <<coreVars, hookVars, queueVars, scanVars, clientVars, copyVars, mgrVars, qryVars>>
\* What the actions of SpecStore and SpecCopy leave alone.
copyRest == <<coreVars, hookVars, queueVars, scanVars, clientVars, loopsVars, mgrVars, qryVars>>
\* What the actions of SpecManager leave alone.
mgrRest == <<coreVars, hookVars, queueVars, scanVars, clientVars, loopsVars, copyVars, qryVars>>
\* What the actions of SpecQuery leave alone.
qryRest == <<coreVars, hookVars, queueVars, scanVars, clientVars, loopsVars, copyVars, mgrVars>>
vars == <<coreVars, extVars>>

(***************************************************************************)
(* strings.TrimSpace on a sequence of characters.                          *)
(***************************************************************************)
RECURSIVE TrimLeft(_)
TrimLeft(s) ==
    IF s # << >> /\ Head(s) = " " THEN TrimLeft(Tail(s)) ELSE s

RECURSIVE TrimRight(_)
TrimRight(s) ==
    IF s # << >> /\ s[Len(s)] = " "
    THEN TrimRight(SubSeq(s, 1, Len(s) - 1))
    ELSE s

TrimSpace(s) == TrimRight(TrimLeft(s))

(***************************************************************************)
(* The mutable controller state a handler may read and change, as a record.*)
(***************************************************************************)
Cur ==
    [followHost |-> followHost, readOnly |-> readOnly, cols |-> cols,
     expires |-> expires, hooks |-> hooks, aof |-> aof,
     shrinklog |-> shrinklog, alive |-> alive, connOpen |-> connOpen]

Install(D) ==
    /\ followHost' = D.followHost
    /\ readOnly' = D.readOnly
    /\ cols' = D.cols
    /\ expires' = D.expires
    /\ hooks' = D.hooks
    /\ aof' = D.aof
    /\ shrinklog' = D.shrinklog
    /\ alive' = D.alive
    /\ connOpen' = D.connOpen

\* The tokens of a message as they are journalled: verb, key or name, id.
Values(msg) == <<msg.Command, msg.Arg>>

\* out when no message has been handled since the client last read.
NoMsg ==
    [Command |-> "", Arg |-> "", Auth |-> << >>, Password |-> << >>,
     ConnType |-> ""]
Idle ==
    [msg |-> NoMsg, fault |-> "", reply |-> "", herr |-> "", events |-> << >>]

(***************************************************************************)
(* The write handlers.  Each returns [err, D, ev]: the error ("" when the  *)
(* handler succeeded), the controller state it leaves and the events it    *)
(* caused besides the mutation itself.                                     *)
(***************************************************************************)
Ok(D) == [err |-> "", D |-> D, ev |-> << >>]
Fail(D, e) == [err |-> e, D |-> D, ev |-> << >>]

Exists(D, id) == D.cols[id] # NoObj

Remove(D, ids) ==
    [D EXCEPT !.cols = [i \in Ids |-> IF i \in ids THEN NoObj ELSE D.cols[i]],
              !.expires = D.expires \ ids]

cmdSet(D, id) ==
    Ok([D EXCEPT !.cols[id] = "point", !.expires = D.expires \ {id}])

cmdFset(D, id) ==
    IF Exists(D, id) THEN Ok(D) ELSE Fail(D, "id not found")

cmdDel(D, id) == Ok(Remove(D, {id}))

cmdPdel(D) == Ok(Remove(D, Ids))

cmdDrop(D) == Ok(Remove(D, Ids))

cmdFlushDB(D) == Ok([Remove(D, Ids) EXCEPT !.hooks = {}])

cmdExpire(D, id) ==
    IF Exists(D, id)
    THEN Ok([D EXCEPT !.expires = D.expires \cup {id}])
    ELSE Fail(D, "id not found")

cmdPersist(D, id) ==
    IF Exists(D, id)
    THEN Ok([D EXCEPT !.expires = D.expires \ {id}])
    ELSE Fail(D, "id not found")

cmdJset(D, id) == Ok([D EXCEPT !.cols[id] = "json"])

cmdJdel(D, id) ==
    IF ~Exists(D, id) THEN Fail(D, "id not found")
    ELSE IF D.cols[id] = "json" THEN Ok([D EXCEPT !.cols[id] = "json-"])
    ELSE Ok(D)

\* A hook is modelled by its name: SETHOOK of a name that is registered
\* finds an equal hook and keeps it.
cmdSetHook(D, name) == Ok([D EXCEPT !.hooks = D.hooks \cup {name}])

cmdDelHook(D, name) == Ok([D EXCEPT !.hooks = D.hooks \ {name}])

cmdPDelHook(D) == Ok([D EXCEPT !.hooks = {}])

cmdFollow(D, host) ==
    Ok([D EXCEPT !.followHost = IF host = "no one" THEN "" ELSE host])

\* A READONLY that rewrites the config file on every yes and no.
cmdReadOnlyAlwaysWrites(D, arg) ==
    CASE arg = "" -> Fail(D, "invalid number of arguments")
      [] arg \in {"yes", "no"} ->
            [err |-> "", D |-> [D EXCEPT !.readOnly = (arg = "yes")],
             ev |-> <<"config write">>]
      [] OTHER -> Fail(D, "invalid argument")

cmdReadOnly(D, arg) ==
    CASE arg = "" -> Fail(D, "invalid number of arguments")
      [] arg = "yes" ->
            IF ~D.readOnly
            THEN [err |-> "", D |-> [D EXCEPT !.readOnly = TRUE],
                  ev |-> <<"config write">>]
            ELSE Ok(D)
      [] arg = "no" ->
            IF D.readOnly
            THEN [err |-> "", D |-> [D EXCEPT !.readOnly = FALSE],
                  ev |-> <<"config write">>]
            ELSE Ok(D)
      [] OTHER -> Fail(D, "invalid argument")

\* CLIENT GETNAME, and CLIENT KILL of the calling connection: the response
\* is written, then the socket is closed.
cmdClient(D, arg) ==
    CASE arg = "kill" ->
            [err |-> "", D |-> [D EXCEPT !.connOpen = FALSE],
             ev |-> <<"write ok", "close">>]
      [] arg = "getname" -> Ok(D)
      [] OTHER -> Fail(D, "Syntax error")

(***************************************************************************)
(* writeAOF: journal a committed command.  fault names what goes wrong in  *)
(* this call: "aofio" is a failed file write, "aofhook" a failed hook      *)
(* enqueue, anything else nothing.                                         *)
(***************************************************************************)
WriteAOF(D, values, fault) ==
    IF appendonly /\ fault = "aofio"
    THEN [err |-> "aof write failed", D |-> D, ev |-> << >>]
    ELSE
      LET D1 == IF appendonly
                THEN [D EXCEPT !.aof = Append(D.aof, values),
                               !.shrinklog = IF shrinking
                                             THEN Append(D.shrinklog, values)
                                             ELSE D.shrinklog]
                ELSE D
          ev1 == (IF appendonly THEN <<"aof">> ELSE << >>)
                 \o (IF appendonly /\ shrinking THEN <<"shrinklog">> ELSE << >>)
      IN IF fault = "aofhook"
         THEN [err |-> "aofhook", D |-> D1, ev |-> ev1]
         ELSE [err |-> "", D |-> D1, ev |-> ev1 \o <<"hooks", "live">>]

\* MASSINSERT 1 n: docmd runs SET through c.command and journals it with
\* writeAOF; an error of either is fatal.
MassInsertValues == <<"set", Key, "0", "STRING", "str0">>

cmdMassInsert(D, arg, fault) ==
    IF arg = "0" THEN Ok(D)
    ELSE
      LET D1 == [D EXCEPT !.cols["0"] = "string",
                          !.expires = D.expires \ {"0"}]
          w == WriteAOF(D1, MassInsertValues, fault)
      IN IF w.err # ""
         THEN [err |-> "", D |-> [w.D EXCEPT !.alive = FALSE],
               ev |-> w.ev \o <<"fatal">>]
         ELSE [err |-> "", D |-> w.D, ev |-> w.ev]

(***************************************************************************)
(* Controller.command: the dispatch table.                                 *)
(***************************************************************************)
UnknownCommand(D) == Fail(D, "unknown command")

\* A dispatch table in which no arm tests core.DevMode.
DevGatedNone == {}

\* The commands whose arm of Controller.command tests core.DevMode.
DevGated == {"shutdown", "massinsert", "sleep"}

\* The commands Controller.command has no arm for.
NoArm == {"auth", "bogus", "ping", "echo"}

Command(D, msg, fault) ==
    LET cmd == msg.Command
        arg == msg.Arg
    IN CASE cmd \in NoArm -> UnknownCommand(D)
         [] cmd \in DevGated /\ ~devMode -> UnknownCommand(D)
         [] cmd = "shutdown" ->
                [err |-> "", D |-> [D EXCEPT !.alive = FALSE],
                 ev |-> <<"fatal">>]
         [] cmd = "massinsert" -> cmdMassInsert(D, arg, fault)
         [] cmd = "aofshrink" ->
                [err |-> "", D |-> D, ev |-> <<"go aofshrink">>]
         [] cmd = "gc" -> Ok(D)
         [] cmd \in {"config", "script"} /\ arg = "" -> UnknownCommand(D)
         [] fault = "handler" -> Fail(D, "invalid number of arguments")
         [] cmd = "set" -> cmdSet(D, arg)
         [] cmd = "fset" -> cmdFset(D, arg)
         [] cmd = "del" -> cmdDel(D, arg)
         [] cmd = "pdel" -> cmdPdel(D)
         [] cmd = "drop" -> cmdDrop(D)
         [] cmd = "flushdb" -> cmdFlushDB(D)
         [] cmd = "sethook" -> cmdSetHook(D, arg)
         [] cmd = "delhook" -> cmdDelHook(D, arg)
         [] cmd = "pdelhook" -> cmdPDelHook(D)
         [] cmd = "expire" -> cmdExpire(D, arg)
         [] cmd = "persist" -> cmdPersist(D, arg)
         [] cmd = "jset" -> cmdJset(D, arg)
         [] cmd = "jdel" -> cmdJdel(D, arg)
         [] cmd = "follow" -> cmdFollow(D, arg)
         [] cmd = "readonly" -> cmdReadOnly(D, arg)
         [] cmd = "client" -> cmdClient(D, arg)
         [] OTHER -> Ok(D)

(***************************************************************************)
(* handleInputCommand.                                                     *)
(***************************************************************************)
\* An authentication block that lets a message without credentials through.
AuthCheckNoRequire(msg) ==
    IF ~authenticated \/ msg.Command = "auth"
    THEN IF requirePass # NoPass
         THEN IF msg.Command # "auth" /\ msg.Auth = NoPass
              THEN [stop |-> FALSE, reply |-> "", authd |-> authenticated]
              ELSE LET password == IF msg.Auth # NoPass THEN msg.Auth
                                   ELSE msg.Password
                   IN IF requirePass # TrimSpace(password)
                      THEN [stop |-> TRUE, reply |-> "invalid password",
                            authd |-> authenticated]
                      ELSE [stop |-> msg.ConnType # "http", reply |-> "ok",
                            authd |-> TRUE]
         ELSE IF msg.Command = "auth"
              THEN [stop |-> TRUE, reply |-> "invalid password",
                    authd |-> authenticated]
              ELSE [stop |-> FALSE, reply |-> "", authd |-> authenticated]
    ELSE [stop |-> FALSE, reply |-> "", authd |-> authenticated]

\* An authentication block that sets conn.Authenticated before it compares
\* the password.
AuthCheckFlagFirst(msg) ==
    IF ~authenticated \/ msg.Command = "auth"
    THEN IF requirePass # NoPass
         THEN IF msg.Command # "auth" /\ msg.Auth = NoPass
              THEN [stop |-> TRUE, reply |-> "authentication required",
                    authd |-> authenticated]
              ELSE LET password == IF msg.Auth # NoPass THEN msg.Auth
                                   ELSE msg.Password
                   IN IF requirePass # TrimSpace(password)
                      THEN [stop |-> TRUE, reply |-> "invalid password",
                            authd |-> TRUE]
                      ELSE [stop |-> msg.ConnType # "http", reply |-> "ok",
                            authd |-> TRUE]
         ELSE IF msg.Command = "auth"
              THEN [stop |-> TRUE, reply |-> "invalid password",
                    authd |-> authenticated]
              ELSE [stop |-> FALSE, reply |-> "", authd |-> authenticated]
    ELSE [stop |-> FALSE, reply |-> "", authd |-> authenticated]

\* The authentication block.  stop: the message ends here with reply.
AuthCheck(msg) ==
    IF ~authenticated \/ msg.Command = "auth"
    THEN IF requirePass # NoPass
         THEN IF msg.Command # "auth" /\ msg.Auth = NoPass
              THEN [stop |-> TRUE, reply |-> "authentication required",
                    authd |-> authenticated]
              ELSE LET password == IF msg.Auth # NoPass THEN msg.Auth
                                   ELSE msg.Password
                   IN IF requirePass # TrimSpace(password)
                      THEN [stop |-> TRUE, reply |-> "invalid password",
                            authd |-> authenticated]
                      ELSE [stop |-> msg.ConnType # "http", reply |-> "ok",
                            authd |-> TRUE]
         ELSE IF msg.Command = "auth"
              THEN [stop |-> TRUE, reply |-> "invalid password",
                    authd |-> authenticated]
              ELSE [stop |-> FALSE, reply |-> "", authd |-> authenticated]
    ELSE [stop |-> FALSE, reply |-> "", authd |-> authenticated]

\* The commands answered before the authentication block.
ShortCircuit == {"ping", "echo"}

\* The lock the locking-strategy switch takes for a command.
LockMode(cmd) ==
    CASE cmd \in WriteCmds -> "Lock"
      [] cmd \in ScriptWriteCmds -> "Lock"
      [] cmd \in ReadCmds -> "RLock"
      [] cmd \in SystemCmds -> "Lock"
      [] cmd \in NoLockCmds -> "none"
      [] cmd \in {"massinsert", "shutdown", "client"} -> "Lock"
      [] cmd \in {"sleep", "aofshrink"} -> "RLock"
      [] OTHER -> "RLock"

\* The write flag the switch sets: the command is journalled after its
\* handler.
WriteFlag(cmd) == cmd \in WriteCmds

\* Gates without the catch-up check of the read arm.
GateNoCatchUp(cmd, D, caughtUpOnce) ==
    CASE cmd \in WriteCmds \cup ScriptWriteCmds ->
            IF D.followHost # "" THEN "not the leader"
            ELSE IF D.readOnly THEN "read only"
            ELSE ""
      [] OTHER -> ""

\* The gates applied right after the lock is taken; "" when the command goes on.
Gate(cmd, D, caughtUpOnce) ==
    CASE cmd \in WriteCmds \cup ScriptWriteCmds ->
            IF D.followHost # "" THEN "not the leader"
            ELSE IF D.readOnly THEN "read only"
            ELSE ""
      [] cmd \in ReadCmds ->
            IF D.followHost # "" /\ ~caughtUpOnce
            THEN "catching up to leader"
            ELSE ""
      [] OTHER -> ""

LockEvents(cmd) ==
    IF LockMode(cmd) = "none" THEN << >> ELSE <<LockMode(cmd)>>

\* A router that journals a write command before it looks at the handler's
\* error.
PostHandlerJournalFirst(msg, r, fault) ==
    LET w == IF WriteFlag(msg.Command)
             THEN WriteAOF(r.D, Values(msg), fault)
             ELSE [err |-> "", D |-> r.D, ev |-> << >>]
    IN IF r.err # ""
       THEN [reply |-> r.err, herr |-> r.err,
             events |-> <<"handler">> \o r.ev \o w.ev \o <<"reply">>,
             D |-> w.D]
       ELSE [reply |-> "ok", herr |-> "",
             events |-> <<"handler">> \o r.ev \o w.ev \o <<"reply">>,
             D |-> w.D]

\* From the handler's return to the end of handleInputCommand.
PostHandler(msg, r, fault) ==
    IF ~r.D.alive
    THEN [reply |-> "", herr |-> "", events |-> <<"handler">> \o r.ev,
          D |-> r.D]
    ELSE IF r.err # ""
    THEN [reply |-> r.err, herr |-> r.err,
          events |-> <<"handler">> \o r.ev \o <<"reply">>, D |-> r.D]
    ELSE IF WriteFlag(msg.Command)
    THEN LET w == WriteAOF(r.D, Values(msg), fault)
         IN IF w.err = "aofhook"
            THEN [reply |-> w.err, herr |-> "",
                  events |-> <<"handler">> \o r.ev \o w.ev \o <<"reply">>,
                  D |-> w.D]
            ELSE IF w.err # ""
            THEN [reply |-> "", herr |-> "",
                  events |-> <<"handler">> \o r.ev \o w.ev \o <<"fatal">>,
                  D |-> [w.D EXCEPT !.alive = FALSE]]
            ELSE [reply |-> "ok", herr |-> "",
                  events |-> <<"handler">> \o r.ev \o w.ev \o <<"reply">>,
                  D |-> w.D]
    ELSE [reply |-> "ok", herr |-> "",
          events |-> <<"handler">> \o r.ev \o <<"reply">>, D |-> r.D]

\* The whole of handleInputCommand for one message:
\* [reply, herr, events, authd, D].  The event "switch" marks that the
\* message reached the locking-strategy switch.
Route(msg, fault) ==
    IF msg.Command \in ShortCircuit
    THEN [reply |-> IF msg.Arg = "" THEN "pong" ELSE msg.Arg, herr |-> "",
          events |-> <<"reply">>, authd |-> authenticated, D |-> Cur]
    ELSE
      LET au == AuthCheck(msg)
      IN IF au.stop
         THEN [reply |-> au.reply, herr |-> "", events |-> <<"reply">>,
               authd |-> au.authd, D |-> Cur]
         ELSE
           LET gate == Gate(msg.Command, Cur, fcuponce)
               lk == <<"switch">> \o LockEvents(msg.Command)
           IN IF gate # ""
              THEN [reply |-> gate, herr |-> "", events |-> lk \o <<"reply">>,
                    authd |-> au.authd, D |-> Cur]
              ELSE
                LET p == PostHandler(msg, Command(Cur, msg, fault), fault)
                IN [reply |-> p.reply, herr |-> p.herr,
                    events |-> lk \o p.events, authd |-> au.authd,
                    D |-> p.D]

(***************************************************************************)
(* The inputs of one message.                                              *)
(***************************************************************************)
\* The message gets as far as its handler.
ReachesHandler(msg) ==
    /\ msg.Command \notin ShortCircuit
    /\ ~AuthCheck(msg).stop
    /\ Gate(msg.Command, Cur, fcuponce) = ""

\* What can go wrong while a command runs: nothing, a request its handler
\* rejects, a failed hook enqueue or a failed write in writeAOF.  A message
\* that does not reach its handler meets none of these.
Faults(msg) ==
    IF ~ReachesHandler(msg) THEN {"none"}
    ELSE IF WriteFlag(msg.Command) \/ msg.Command = "massinsert"
    THEN {"none", "handler", "aofhook", "aofio"}
    ELSE {"none", "handler"}

\* The authentication block reads msg.Auth, msg.Values[1] and msg.ConnType
\* only when it is entered with requirepass set; elsewhere one value stands
\* for all.
AuthRead(cmd) ==
    /\ cmd \notin ShortCircuit
    /\ ~authenticated \/ cmd = "auth"
    /\ requirePass # NoPass

Messages ==
    UNION {
      { [Command |-> cmd, Arg |-> arg, Auth |-> auth, Password |-> pw,
         ConnType |-> ct] :
          arg \in ArgsOf(cmd),
          auth \in (IF AuthRead(cmd) THEN Passwords ELSE {NoPass, <<"x">>}),
          pw \in (IF cmd = "auth" THEN Passwords ELSE {NoPass}),
          ct \in (IF AuthRead(cmd) THEN ConnTypes ELSE {"resp"}) } :
      cmd \in Commands }

(***************************************************************************)
(* Actions of Spec.                                                        *)
(***************************************************************************)
HandleInputCommand ==
    /\ alive /\ connOpen /\ out = Idle
    /\ \E msg \in Messages : \E fault \in Faults(msg) :
         LET r == Route(msg, fault)
         IN /\ Len(r.D.aof) <= MaxAof
            /\ Install(r.D)
            /\ authenticated' = r.authd
            /\ out' = [msg |-> msg, fault |-> fault, reply |-> r.reply,
                       herr |-> r.herr, events |-> r.events]
    /\ UNCHANGED <<extVars, cfgVars, fcuponce, shrinking, lockVars>>

\* The client has read the reply; the connection is ready for a message.
ReadReply ==
    /\ alive /\ connOpen /\ out # Idle
    /\ out' = Idle
    /\ UNCHANGED <<extVars, cfgVars, dataVars, fcuponce, shrinking, authenticated,
                   lockVars>>

\* The client hangs up, or the socket was closed under it: the closed
\* callback drops the connection.
Closed ==
    /\ alive
    /\ \/ connOpen /\ out = Idle
       \/ ~connOpen /\ (authenticated \/ out # Idle)
    /\ connOpen' = FALSE
    /\ authenticated' = FALSE
    /\ out' = Idle
    /\ UNCHANGED <<extVars, cfgVars, followHost, readOnly, cols, expires, hooks, aof,
                   shrinklog, alive, fcuponce, shrinking, lockVars>>

\* A new connection: the opened callback; conn.Authenticated starts false.
Opened ==
    /\ alive /\ ~connOpen /\ ~authenticated /\ out = Idle
    /\ connOpen' = TRUE
    /\ UNCHANGED <<extVars, cfgVars, followHost, readOnly, cols, expires, hooks, aof,
                   shrinklog, alive, fcuponce, shrinking, authenticated, out,
                   lockVars>>

\* The follow goroutine reports that the replay reached the leader's head.
FollowCaughtUp ==
    /\ alive /\ followHost # "" /\ ~fcuponce
    /\ fcuponce' = TRUE
    /\ UNCHANGED <<extVars, cfgVars, dataVars, shrinking, authenticated, out,
                   lockVars>>

\* No goroutine of SpecLock has started.
(***************************************************************************)
(* Universes and initial values of SpecHooks.                              *)
(***************************************************************************)
HookNameSet == {<<"a">>, <<"a", "b">>}
GlobPatterns == {<<"*">>, <<"a">>, <<"?", "b">>, <<"b", "*">>}
\* Endpoint lists as the client writes them.
UrlChoices ==
    {<<"e", ",", "f">>, <<"f", ",", " ", "e">>, <<" ", "e", ",", "f">>}
\* META pairs as the client writes them.
MetaChoices ==
    {<< >>, <<"meta", "m", "1", "meta", "k", "2">>,
     <<"meta", "k", "2", "meta", "m", "1">>}
FenceChoices ==
    {<<"nearby", "fleet", "fence", "point">>,
     <<"within", "zone", "fence", "bounds">>}
OutputTypes == {"json", "resp"}

\* The hook objects that exist at a time: one for every name and the one a
\* SETHOOK builds before it looks the name up.
HookSlots == 1 .. (Cardinality(HookNameSet) + 1)

\* A slot that holds no hook object.
NoHook ==
    [Name |-> << >>, Key |-> "", Endpoints |-> << >>, Metas |-> << >>,
     Values |-> << >>, opened |-> FALSE, closed |-> FALSE]

\* Replies of the hook commands.
OkReply == [kind |-> "ok", n |-> 0, err |-> ""]
IntReply(n) == [kind |-> "int", n |-> n, err |-> ""]
ErrReply(e) == [kind |-> "err", n |-> 0, err |-> e]
NoReply == [kind |-> "", n |-> 0, err |-> ""]

\* No hook command has been handled yet.
NoHookOut == [Values |-> << >>, OutputType |-> "", reply |-> NoReply,
              ev |-> << >>]
\* aofshrink is not in its pass over the hooks.
NoHookPass == [pc |-> "idle", hnames |-> << >>, aofbuf |-> << >>]

HookKeys == {"fleet", "zone"}

InitHooks ==
    /\ hreg = [n \in HookNameSet |-> 0]
    /\ hobj = [i \in HookSlots |-> NoHook]
    /\ hcols = [k \in HookKeys |-> [n \in HookNameSet |-> 0]]
    /\ hout = NoHookOut
    /\ hshrink = NoHookPass


(***************************************************************************)
(* Universes and initial values of SpecQueue.                              *)
(***************************************************************************)
\* Payloads enqueued in a behaviour of SpecQueue.
MaxEnqueue == 3
\* The time to live of a queue entry, in ticks of the model's clock.
HookTTL == 2
\* The hooks of SpecQueue and their endpoints, in configured order.
QueueHooks == {<<"a">>, <<"b">>}
HookEndpoints(h) == IF h = <<"a">> THEN <<"x", "y">> ELSE <<"z">>

\* A delivery task that is not in a round.
IdleTask(p) == [pc |-> p, keys |-> << >>, i |-> 0, ep |-> 0, elapsed |-> 0]

InitQueue ==
    /\ queue = {}
    /\ qidx = 0
    /\ task = [h \in QueueHooks |-> IdleTask("wait")]
    /\ sent = << >>

(***************************************************************************)
(* Universes and initial values of SpecScan.                               *)
(***************************************************************************)
\* Objects of the larger collection scanned.
MaxObjects == 103
\* Objects of the largest collection counted by SpecCount.
MaxCounted == 3
\* The page size when none is asked for, and the largest uint64, which
\* stands for no limit.  TLC's integers have 32 bits: the largest of them
\* stands for math.MaxUint64, and like it no count of objects reaches it.
limitItems == 100
MaxUint64 == 2147483647
outputIDs == "outputIDs"
outputCount == "outputCount"
ScanCursors == {0, 2}
ScanLimits == {0, 1, 3}
ScanOutputs == {outputIDs, outputCount}
ScanGlobs == {"*", "a"}
ColSizes == {1, MaxObjects}
OutputTypesOfScan == {"JSON", "RESP"}
\* The foot of a RESP reply to a COUNT has no cursor.
NoCursor == -1
NoFoot == [count |-> 0, cursor |-> NoCursor]
NoScanWriter ==
    [cursor |-> 0, limit |-> 0, output |-> "outputUnknown", count |-> 0,
     numberItems |-> 0, hitLimit |-> FALSE, globEverything |-> FALSE,
     globSingle |-> FALSE, values |-> 0]
NoScan ==
    [pc |-> "idle", cmd |-> "scan", cursor |-> 0, limit |-> 0, size |-> 0,
     clauses |-> {}, iterated |-> 0, failed |-> 0, fails |-> "none",
     foot |-> NoFoot]

InitScan ==
    /\ sw = NoScanWriter
    /\ scan = NoScan

(***************************************************************************)
(* Universes and initial values of SpecClient.                             *)
(***************************************************************************)
\* Connections opened in a behaviour of SpecClient.
MaxClientID == 4
\* The connections and the remote address of each.
ConnSet == {"k1", "k2", "k3"}
RemoteAddr(k) ==
    CASE k = "k1" -> <<"h", ":", "1">>
      [] k = "k2" -> <<"h", ":", "2">>
      [] OTHER -> <<"h", ":", "3">>
NoConn == [id |-> 0, reg |-> FALSE, open |-> FALSE]
NoKill ==
    [conn |-> "", values |-> << >>, reply |-> NoReply, events |-> << >>]

InitClient ==
    /\ conns = [k \in ConnSet |-> NoConn]
    /\ clientID = 0
    /\ kill = NoKill

(***************************************************************************)
(* Universes and initial values of SpecLoops.                              *)
(***************************************************************************)
\* Ticks a loop is followed for after its stop flag was set.
MaxLate == 3
BackgroundLoops == {"expirer", "memory", "autogc", "luapool"}
\* The stop flag each loop reads; watchLuaStatePool reads none.
StopFlagOf(l) ==
    CASE l = "expirer" -> "stopBackgroundExpiring"
      [] l = "memory" -> "stopWatchingMemory"
      [] l = "autogc" -> "stopWatchingAutoGC"
      [] OTHER -> "none"
AutoGCChoices == {0, 2}
MaxMemoryChoices == {0, 1}

InitLoops ==
    /\ stopFlags = [stopBackgroundExpiring |-> FALSE,
                    stopWatchingMemory |-> FALSE,
                    stopWatchingAutoGC |-> FALSE]
    /\ loops = [l \in BackgroundLoops |-> [pc |-> "running", late |-> 0]]
    /\ watch = [autoGC |-> 0, maxMemory |-> 0, since |-> 0,
                outOfMemory |-> FALSE]

(***************************************************************************)
(* The store over several keys, and aofshrink's copy of it.                *)
(***************************************************************************)
\* The batch sizes of aofshrink.
maxkeys == 8
maxids == 32

\* The client writes of one behaviour of SpecCopy.
MaxCopyWrites == 1

\* Keys and ids are numbers in their sort order; 0 is the empty string, less
\* than every key and id.
CopyKeys == 1 .. (maxkeys + 3)
CopyIds == 1 .. (maxids + 3)
BigKey == 2

\* What time.Now() leaves of a deadline: 100 ms or more ahead, less than
\* 100 ms ahead, or reached.
Deadlines == {"later", "soon", "due"}

\* A map without entries.
NoMap == << >>

\* Nine keys, one more than a key batch holds, and a gap before the last;
\* one collection of 33 ids, one more than an id batch holds, with a gap
\* before the last; no deadlines.
InitStore ==
    [cols |-> [k \in (1 .. maxkeys) \cup {maxkeys + 2} |->
                 IF k = BigKey THEN (1 .. maxids) \cup {maxids + 2}
                 ELSE {1}],
     expires |-> NoMap]

\* aofshrink before it is called.
NoShrink ==
    [shrinking |-> FALSE, shrinklog |-> << >>, file |-> << >>,
     pc |-> "idle", keys |-> << >>, nextkey |-> 0, keysdone |-> FALSE,
     nextid |-> 0, idsdone |-> FALSE]

NoTrail ==
    [stable |-> {}, deadlined |-> {}, copied |-> 0, swapped |-> FALSE,
     writes |-> 0, last |-> "", cleared |-> {}]

InitCopy ==
    /\ store = InitStore
    /\ cmu = ""
    /\ shr = NoShrink
    /\ trail = NoTrail

(***************************************************************************)
(* The hooks with their mutex and condition variable, and c.mu.            *)
(***************************************************************************)
\* The entries put into the queue in one behaviour of SpecManager.
MaxPayloads == 1

\* A hook as cmdSetHook makes it, before Open.
NewHook ==
    [opened |-> FALSE, closed |-> FALSE, mu |-> FALSE, pc |-> "off",
     keys |-> {}]

\* c.mu free.
NoCall == [kind |-> "", hook |-> << >>]

InitMgr ==
    /\ hk = [h \in QueueHooks |-> NewHook]
    /\ hq = {}
    /\ ctl = [mu |-> "", call |-> NoCall, n |-> 0]
    /\ hist = [signalled |-> {}, picked |-> {}, expired |-> {}]

(***************************************************************************)
(* Universes and initial values of SpecQuery.                              *)
(***************************************************************************)
\* Records of the largest collection queried.
MaxNear == 3
\* The distances of records from the point of a NEARBY.
Dists == {1, 2}
\* A record: its distance, whether sw.fieldMatch and sw.globMatch accept it,
\* and whether its deadline has passed with the record still stored.
Records ==
    { r \in [dist : Dists, ok : BOOLEAN, expired : BOOLEAN] :
        r.ok \/ ~r.expired }
QueryCmds == {"nearby", "within", "intersects", "scan", "search"}
QueryCursors == {0, 1}
QueryLimits == {1, 2}
NoQuery ==
    [pc |-> "idle", cmd |-> "", knn |-> FALSE, col |-> << >>,
     items |-> << >>, i |-> 0, sw |-> NoScanWriter, written |-> << >>]

InitQry == qry = NoQuery

\* The initial values of the variables the specifications after SpecLock
\* add.
InitExt ==
    /\ InitHooks
    /\ InitQueue
    /\ InitScan
    /\ InitClient
    /\ InitLoops
    /\ InitCopy
    /\ InitMgr
    /\ InitQry

InitLockVars ==
    /\ mu = [w |-> "", r |-> {}]
    /\ pc = [c \in Clients |-> "idle"]
    /\ cur = [c \in Clients |-> NoMsg]
    /\ spc = [s \in Shrinkers |-> "none"]
    /\ shrinkfile = << >>
    /\ applied = << >>
    /\ journal = << >>
    /\ writes = 0

Init ==
    /\ InitLockVars
    /\ devMode \in BOOLEAN
    /\ appendonly \in BOOLEAN
    /\ requirePass \in RequirePassChoices
    /\ followHost = ""
    /\ readOnly = FALSE
    /\ fcuponce = FALSE
    /\ cols = [i \in Ids |-> NoObj]
    /\ expires = {}
    /\ hooks = {}
    /\ aof = << >>
    /\ shrinking = FALSE
    /\ shrinklog = << >>
    /\ alive = TRUE
    /\ connOpen = TRUE
    /\ authenticated = FALSE
    /\ out = Idle
    /\ InitExt

Next ==
    \/ HandleInputCommand
    \/ ReadReply
    \/ Closed
    \/ Opened
    \/ FollowCaughtUp

Spec == Init /\ [][Next]_vars

(***************************************************************************)
(* SpecLock: client goroutines and aofshrink goroutines under c.mu.        *)
(***************************************************************************)
\* The commands whose handler changes the store, the expiration index or the
\* hook registry.
StoreWriters == WriteCmds \cup {"jdel"}

\* The messages the clients of SpecLock send.
LockCommands == {"set", "del", "jset", "jdel", "sethook", "delhook", "get",
                 "aofshrink"}
LockMessages ==
    UNION { { [Command |-> cmd, Arg |-> arg, Auth |-> NoPass,
               Password |-> NoPass, ConnType |-> "resp"] :
              arg \in ArgsOf(cmd) } : cmd \in LockCommands }

MuFree == mu.w = "" /\ mu.r = {}

\* c.mu.Lock() or c.mu.RLock() by client c, as the switch chooses.
MuAcquire(c, mode) ==
    CASE mode = "Lock" -> MuFree /\ mu' = [mu EXCEPT !.w = c]
      [] mode = "RLock" -> mu.w = "" /\ mu' = [mu EXCEPT !.r = @ \cup {c}]
      [] OTHER -> mu' = mu

\* The deferred c.mu.Unlock() or c.mu.RUnlock() of client c.
MuRelease(c) ==
    mu' = [w |-> IF mu.w = c THEN "" ELSE mu.w, r |-> mu.r \ {c}]

\* aofshrink goroutines that can still be started.
FreeShrinkers == {s \in Shrinkers : spc[s] = "none"}

\* Clients that hold the lock and are about to run the AOFSHRINK arm.
PendingShrinkCmds ==
    {c \in Clients : pc[c] = "locked" /\ cur[c].Command = "aofshrink"}

\* A client goroutine enters handleInputCommand with a message, takes the
\* lock the switch chooses and passes the gate.
LockAcquire(c) ==
    /\ alive /\ pc[c] = "idle"
    /\ \E msg \in LockMessages :
         /\ ~AuthCheck(msg).stop
         /\ msg.Command \in StoreWriters => writes < MaxWrites
         /\ msg.Command = "aofshrink"
            => Cardinality(FreeShrinkers) > Cardinality(PendingShrinkCmds)
         /\ MuAcquire(c, LockMode(msg.Command))
         /\ cur' = [cur EXCEPT ![c] = msg]
         /\ pc' = [pc EXCEPT ![c] =
                     IF Gate(msg.Command, Cur, fcuponce) = "" THEN "locked"
                     ELSE "done"]
         /\ writes' = IF msg.Command \in StoreWriters THEN writes + 1
                      ELSE writes
    /\ UNCHANGED <<extVars, cfgVars, dataVars, fcuponce, shrinking, authenticated, out,
                   spc, shrinkfile, applied, journal>>

\* c.command runs the handler of the message of client c.
LockCommand(c) ==
    /\ alive /\ pc[c] = "locked"
    /\ LET msg == cur[c]
           r == Command(Cur, msg, "none")
           go == \E i \in DOMAIN r.ev : r.ev[i] = "go aofshrink"
       IN /\ Install(r.D)
          /\ applied' = IF r.err = "" /\ msg.Command \in StoreWriters
                        THEN Append(applied, Values(msg))
                        ELSE applied
          /\ IF go
             THEN \E s \in FreeShrinkers : spc' = [spc EXCEPT ![s] = "spawned"]
             ELSE spc' = spc
          /\ pc' = [pc EXCEPT ![c] =
                      IF r.err = "" /\ WriteFlag(msg.Command) THEN "handled"
                      ELSE "done"]
    /\ UNCHANGED <<extVars, cfgVars, fcuponce, shrinking, authenticated, out, mu, cur,
                   shrinkfile, journal, writes>>

\* c.writeAOF journals the message of client c.
LockWriteAOF(c) ==
    /\ alive /\ pc[c] = "handled"
    /\ LET w == WriteAOF(Cur, Values(cur[c]), "none")
       IN /\ Install(w.D)
          /\ journal' = IF appendonly THEN Append(journal, Values(cur[c]))
                        ELSE journal
    /\ pc' = [pc EXCEPT ![c] = "done"]
    /\ UNCHANGED <<extVars, cfgVars, fcuponce, shrinking, authenticated, out, mu, cur,
                   spc, shrinkfile, applied, writes>>

\* handleInputCommand returns: the reply is written and the deferred unlock
\* runs.
LockReturn(c) ==
    /\ alive /\ pc[c] = "done"
    /\ MuRelease(c)
    /\ pc' = [pc EXCEPT ![c] = "idle"]
    /\ cur' = [cur EXCEPT ![c] = NoMsg]
    /\ UNCHANGED <<extVars, cfgVars, dataVars, fcuponce, shrinking, authenticated, out,
                   spc, shrinkfile, applied, journal, writes>>

\* A shrink that does not test the shrinking flag.
AlreadyShrinkingIgnored == FALSE

\* The test of the shrinking flag at the start of aofshrink.
AlreadyShrinking == shrinking

\* aofshrink with no AOF: returns at once.
AofShrinkNoAof(s) ==
    /\ alive /\ spc[s] = "spawned" /\ ~appendonly
    /\ spc' = [spc EXCEPT ![s] = "returned"]
    /\ UNCHANGED <<extVars, cfgVars, dataVars, fcuponce, shrinking, authenticated, out,
                   mu, pc, cur, shrinkfile, applied, journal, writes>>

\* aofshrink finds a shrink running: unlocks and returns.
AofShrinkSkip(s) ==
    /\ alive /\ spc[s] = "spawned" /\ appendonly
    /\ MuFree
    /\ AlreadyShrinking
    /\ spc' = [spc EXCEPT ![s] = "skipped"]
    /\ UNCHANGED <<extVars, cfgVars, dataVars, fcuponce, shrinking, authenticated, out,
                   mu, pc, cur, shrinkfile, applied, journal, writes>>

\* aofshrink begins: sets the flag, clears the shrink log, registers the
\* deferred reset and creates the shrink file.
AofShrinkBegin(s) ==
    /\ alive /\ spc[s] = "spawned" /\ appendonly
    /\ MuFree
    /\ ~AlreadyShrinking
    /\ shrinking' = TRUE
    /\ shrinklog' = << >>
    /\ shrinkfile' = << >>
    /\ spc' = [spc EXCEPT ![s] = "keys"]
    /\ UNCHANGED <<extVars, cfgVars, followHost, readOnly, cols, expires, hooks, aof,
                   alive, connOpen, fcuponce, authenticated, out, mu, pc, cur,
                   applied, journal, writes>>

\* The SET records of the objects of the store, in id order.
RECURSIVE ObjectRecords(_)
ObjectRecords(ids) ==
    IF ids = {} THEN << >>
    ELSE LET id == CHOOSE i \in ids : TRUE
         IN (IF cols[id] = NoObj THEN << >>
             ELSE << <<"set", id, cols[id]>> >>)
            \o ObjectRecords(ids \ {id})

\* The SETHOOK records of the hooks, in name order.
RECURSIVE HookRecords(_)
HookRecords(names) ==
    IF names = {} THEN << >>
    ELSE LET name == CHOOSE n \in names : TRUE
         IN << <<"sethook", name>> >> \o HookRecords(names \ {name})

\* aofshrink writes the objects of every key to the shrink file.
AofShrinkKeys(s) ==
    /\ alive /\ spc[s] = "keys"
    /\ MuFree
    /\ shrinkfile' = shrinkfile \o ObjectRecords(Ids)
    /\ spc' = [spc EXCEPT ![s] = "hooks"]
    /\ UNCHANGED <<extVars, cfgVars, dataVars, fcuponce, shrinking, authenticated, out,
                   mu, pc, cur, applied, journal, writes>>

\* aofshrink writes the hooks to the shrink file.
AofShrinkHooks(s) ==
    /\ alive /\ spc[s] = "hooks"
    /\ MuFree
    /\ shrinkfile' = shrinkfile \o HookRecords(hooks)
    /\ spc' = [spc EXCEPT ![s] = "swap"]
    /\ UNCHANGED <<extVars, cfgVars, dataVars, fcuponce, shrinking, authenticated, out,
                   mu, pc, cur, applied, journal, writes>>

\* A write to the shrink file fails: aofshrink returns the error.
AofShrinkFileError(s) ==
    /\ alive /\ spc[s] \in {"keys", "hooks", "swap"}
    /\ spc' = [spc EXCEPT ![s] = "failed"]
    /\ UNCHANGED <<extVars, cfgVars, dataVars, fcuponce, shrinking, authenticated, out,
                   mu, pc, cur, shrinkfile, applied, journal, writes>>

\* A shrink whose final closure unlocks c.mu between the drain and the swap.
DrainLockReleased(s) == ""

\* The holder of c.mu from the drain of the shrink log to the end of the swap:
\* the closure locks once and unlocks when it returns.
DrainLockHolder(s) == s

\* The final closure of aofshrink takes c.mu and appends the shrink log to
\* the shrink file.
AofShrinkDrain(s) ==
    /\ alive /\ spc[s] = "swap"
    /\ MuFree
    /\ mu' = [mu EXCEPT !.w = DrainLockHolder(s)]
    /\ shrinkfile' = shrinkfile \o shrinklog
    /\ spc' = [spc EXCEPT ![s] = "swapping"]
    /\ UNCHANGED <<extVars, cfgVars, dataVars, fcuponce, shrinking, authenticated, out,
                   pc, cur, applied, journal, writes>>

\* Writing or syncing the drained shrink log fails: the closure returns the
\* error and its deferred unlock runs.
AofShrinkDrainError(s) ==
    /\ alive /\ spc[s] = "swapping"
    /\ mu.w = DrainLockHolder(s) /\ mu.r = {}
    /\ mu' = [mu EXCEPT !.w = ""]
    /\ spc' = [spc EXCEPT ![s] = "failed"]
    /\ UNCHANGED <<extVars, cfgVars, dataVars, fcuponce, shrinking, authenticated, out,
                   pc, cur, shrinkfile, applied, journal, writes>>

\* Closing or renaming a file fails after the drain: log.Fatalf ends the
\* process.
AofShrinkFatal(s) ==
    /\ alive /\ spc[s] = "swapping"
    /\ mu.w = DrainLockHolder(s) /\ mu.r = {}
    /\ alive' = FALSE
    /\ UNCHANGED <<extVars, cfgVars, followHost, readOnly, cols, expires, hooks, aof,
                   shrinklog, connOpen, fcuponce, shrinking, authenticated,
                   out, lockVars>>

\* The swap: the live AOF is closed and renamed away, the shrink file takes
\* its name and is reopened as the live AOF, and the closure unlocks c.mu.
AofShrinkSwap(s) ==
    /\ alive /\ spc[s] = "swapping"
    /\ mu.w = DrainLockHolder(s) /\ mu.r = {}
    /\ mu' = [mu EXCEPT !.w = ""]
    /\ aof' = shrinkfile
    /\ spc' = [spc EXCEPT ![s] = "deferred"]
    /\ UNCHANGED <<extVars, cfgVars, followHost, readOnly, cols, expires, hooks,
                   shrinklog, alive, connOpen, fcuponce, shrinking,
                   authenticated, out, pc, cur, shrinkfile, applied, journal,
                   writes>>

\* A deferred function that clears the flag and keeps the shrink log.
DeferredResetKeepsLog == [shrinking |-> FALSE, shrinklog |-> shrinklog]

\* What the deferred function of aofshrink assigns.
DeferredReset == [shrinking |-> FALSE, shrinklog |-> << >>]

\* The deferred function of aofshrink: clears the flag and the shrink log.
\* It runs when the closure returned nil and when it returned an error.
AofShrinkDeferred(s) ==
    /\ alive /\ spc[s] \in {"deferred", "failed"}
    /\ MuFree
    /\ shrinking' = DeferredReset.shrinking
    /\ shrinklog' = DeferredReset.shrinklog
    /\ spc' = [spc EXCEPT ![s] =
                  IF spc[s] = "failed" THEN "aborted" ELSE "returned"]
    /\ UNCHANGED <<extVars, cfgVars, followHost, readOnly, cols, expires, hooks, aof,
                   alive, connOpen, fcuponce, authenticated, out, mu, pc, cur,
                   shrinkfile, applied, journal, writes>>

\* The goroutine of aofshrink ends.
AofShrinkExit(s) ==
    /\ alive /\ spc[s] \in {"returned", "aborted", "skipped"}
    /\ spc' = [spc EXCEPT ![s] = "none"]
    /\ UNCHANGED <<extVars, cfgVars, dataVars, fcuponce, shrinking, authenticated, out,
                   mu, pc, cur, shrinkfile, applied, journal, writes>>

InitLock ==
    /\ InitLockVars
    /\ devMode = FALSE
    /\ appendonly \in BOOLEAN
    /\ requirePass = NoPass
    /\ followHost = ""
    /\ readOnly = FALSE
    /\ fcuponce = FALSE
    /\ cols = [i \in Ids |-> NoObj]
    /\ expires = {}
    /\ hooks = {}
    /\ aof = << >>
    /\ shrinking = FALSE
    /\ shrinklog = << >>
    /\ alive = TRUE
    /\ connOpen = TRUE
    /\ authenticated = FALSE
    /\ out = Idle
    /\ InitExt

\* The variables of Spec and SpecLock as they are when the server has
\* started with the AOF enabled and no client has sent anything.
InitCore ==
    /\ InitLockVars
    /\ devMode = FALSE
    /\ appendonly = TRUE
    /\ requirePass = NoPass
    /\ followHost = ""
    /\ readOnly = FALSE
    /\ fcuponce = FALSE
    /\ cols = [i \in Ids |-> NoObj]
    /\ expires = {}
    /\ hooks = {}
    /\ aof = << >>
    /\ shrinking = FALSE
    /\ shrinklog = << >>
    /\ alive = TRUE
    /\ connOpen = TRUE
    /\ authenticated = FALSE
    /\ out = Idle
    /\ InitExt

NextLock ==
    \/ \E c \in Clients : LockAcquire(c)
    \/ \E c \in Clients : LockCommand(c)
    \/ \E c \in Clients : LockWriteAOF(c)
    \/ \E c \in Clients : LockReturn(c)
    \/ \E s \in Shrinkers : AofShrinkNoAof(s)
    \/ \E s \in Shrinkers : AofShrinkSkip(s)
    \/ \E s \in Shrinkers : AofShrinkBegin(s)
    \/ \E s \in Shrinkers : AofShrinkKeys(s)
    \/ \E s \in Shrinkers : AofShrinkHooks(s)
    \/ \E s \in Shrinkers : AofShrinkFileError(s)
    \/ \E s \in Shrinkers : AofShrinkDrain(s)
    \/ \E s \in Shrinkers : AofShrinkDrainError(s)
    \/ \E s \in Shrinkers : AofShrinkFatal(s)
    \/ \E s \in Shrinkers : AofShrinkSwap(s)
    \/ \E s \in Shrinkers : AofShrinkDeferred(s)
    \/ \E s \in Shrinkers : AofShrinkExit(s)

SpecLock == InitLock /\ [][NextLock]_vars

(***************************************************************************)
(* SpecHooks: the hook registry under SETHOOK, DELHOOK and PDELHOOK, and   *)
(* the pass of aofshrink over the hooks.  Hook names, endpoint lists and   *)
(* glob patterns are sequences of characters, so that splitting, joining,  *)
(* trimming, sorting and matching are computations.                        *)
(***************************************************************************)
\* The order of the bytes the model uses.
Rank(ch) ==
    CASE ch = " " -> 1
      [] ch = "*" -> 2
      [] ch = "," -> 3
      [] ch = "?" -> 4
      [] ch = "a" -> 5
      [] ch = "b" -> 6
      [] ch = "e" -> 7
      [] ch = "f" -> 8
      [] ch = "k" -> 9
      [] ch = "m" -> 10
      [] OTHER -> 0

\* a < b on strings.
RECURSIVE StrLess(_, _)
StrLess(a, b) ==
    IF b = << >> THEN FALSE
    ELSE IF a = << >> THEN TRUE
    ELSE IF Head(a) = Head(b) THEN StrLess(Tail(a), Tail(b))
    ELSE Rank(Head(a)) < Rank(Head(b))

\* sort.Strings on a set of names.
RECURSIVE SortStrings(_)
SortStrings(S) ==
    IF S = {} THEN << >>
    ELSE LET m == CHOOSE x \in S : \A y \in S \ {x} : StrLess(x, y)
         IN <<m>> \o SortStrings(S \ {m})

\* strings.Split(s, ","), with cur the piece being read.
RECURSIVE SplitComma(_, _)
SplitComma(s, piece) ==
    IF s = << >> THEN <<piece>>
    ELSE IF Head(s) = "," THEN <<piece>> \o SplitComma(Tail(s), << >>)
    ELSE SplitComma(Tail(s), Append(piece, Head(s)))

\* strings.Join(eps, ",").
RECURSIVE JoinComma(_)
JoinComma(eps) ==
    IF eps = << >> THEN << >>
    ELSE IF Len(eps) = 1 THEN eps[1]
    ELSE eps[1] \o <<",">> \o JoinComma(Tail(eps))

\* glob.Match(pattern, name).
RECURSIVE GlobMatch(_, _)
GlobMatch(p, s) ==
    IF p = << >> THEN s = << >>
    ELSE IF Head(p) = "*"
    THEN GlobMatch(Tail(p), s) \/ (s # << >> /\ GlobMatch(p, Tail(s)))
    ELSE IF Head(p) = "?" THEN s # << >> /\ GlobMatch(Tail(p), Tail(s))
    ELSE s # << >> /\ Head(s) = Head(p) /\ GlobMatch(Tail(p), Tail(s))

\* epc.Validate(url): an empty URL has no scheme.
ValidEndpoint(url) == url # << >>

\* metaMap[key] = val.
MetaPut(m, key, val) ==
    SelectSeq(m, LAMBDA e : e.Name # key) \o <<[Name |-> key, Value |-> val]>>

\* sort.Sort(hookMetaByName(metas)).
RECURSIVE SortMetas(_)
SortMetas(m) ==
    IF m = << >> THEN << >>
    ELSE LET i == CHOOSE j \in DOMAIN m :
                    \A k \in DOMAIN m : Rank(m[j].Name) <= Rank(m[k].Name)
         IN <<m[i]>>
            \o SortMetas(SelectSeq(m, LAMBDA e : e.Name # m[i].Name))

\* The loop of cmdSetHook over the tokens after the endpoints: META pairs go
\* to the map, the first other token starts the fence command.
RECURSIVE ParseMetas(_, _)
ParseMetas(vs, m) ==
    IF vs = << >> THEN [err |-> "invalid number of arguments"]
    ELSE IF Head(vs) = "meta"
    THEN IF Len(vs) < 3 THEN [err |-> "invalid number of arguments"]
         ELSE ParseMetas(SubSeq(vs, 4, Len(vs)), MetaPut(m, vs[2], vs[3]))
    ELSE IF Head(vs) \in {"nearby", "within", "intersects"}
    THEN [err |-> "", commandvs |-> vs, metaMap |-> m]
    ELSE [err |-> "invalid argument"]

\* cmdSearchArgs on the tokens of the fence command: the key, and whether
\* the FENCE keyword stands before the area type.
SearchArgs(commandvs) ==
    IF Len(commandvs) < 3 THEN [err |-> "invalid number of arguments"]
    ELSE [err |-> "", key |-> commandvs[2],
          fence |-> \E i \in 3 .. Len(commandvs) - 1 : commandvs[i] = "fence"]

\* cmdSetHook up to the lookup in the registry: the hook the tokens denote.
ParseSetHook(values) ==
    IF Len(values) < 2 \/ values[2] = << >>
    THEN [err |-> "invalid number of arguments"]
    ELSE IF Len(values) < 3 \/ values[3] = << >>
    THEN [err |-> "invalid number of arguments"]
    ELSE
      LET pieces == SplitComma(values[3], << >>)
          endpoints == [i \in DOMAIN pieces |-> TrimSpace(pieces[i])]
          p == ParseMetas(SubSeq(values, 4, Len(values)), << >>)
          s == SearchArgs(p.commandvs)
      IN IF \E i \in DOMAIN endpoints : ~ValidEndpoint(endpoints[i])
         THEN [err |-> "invalid argument"]
         ELSE IF p.err # "" THEN [err |-> p.err]
         ELSE IF s.err # "" THEN [err |-> s.err]
         ELSE IF ~s.fence THEN [err |-> "missing FENCE argument"]
         ELSE [err |-> "",
               hook |-> [Name |-> values[2], Key |-> s.key,
                         Endpoints |-> endpoints,
                         Metas |-> SortMetas(p.metaMap),
                         Values |-> p.commandvs,
                         opened |-> FALSE, closed |-> FALSE]]

\* Hook.Equals.
Equals(h, hook) ==
    /\ h.Key = hook.Key
    /\ h.Name = hook.Name
    /\ Len(h.Endpoints) = Len(hook.Endpoints)
    /\ Len(h.Metas) = Len(hook.Metas)
    /\ \A i \in DOMAIN h.Endpoints : h.Endpoints[i] = hook.Endpoints[i]
    /\ \A i \in DOMAIN h.Metas :
          /\ h.Metas[i].Name = hook.Metas[i].Name
          /\ h.Metas[i].Value = hook.Metas[i].Value
    /\ h.Values = hook.Values

\* The registry as the handlers see it: c.hooks, the hook objects and
\* c.hookcols.
HCur == [reg |-> hreg, obj |-> hobj, cols |-> hcols]

\* The manager goroutines of the hooks closed so far have returned.  The
\* hook commands of the model are handled in such states: a closed hook is
\* in no map and no handler reads it.
ManagersGone(R) == \A i \in HookSlots : ~R.obj[i].closed

\* The slot a new hook object takes.
FreeSlots(R) == {i \in HookSlots : R.obj[i] = NoHook}
NewSlot(R) == CHOOSE i \in FreeSlots(R) : \A j \in FreeSlots(R) : i <= j

CloseAndDeleteKeepsIndex(R, name) ==
    [reg |-> [R.reg EXCEPT ![name] = 0],
     obj |-> [R.obj EXCEPT ![R.reg[name]].closed = TRUE],
     cols |-> R.cols]

\* h.Close() and the two deletes that follow it in every handler.
CloseAndDelete(R, name) ==
    LET i == R.reg[name]
    IN [reg |-> [R.reg EXCEPT ![name] = 0],
        obj |-> [R.obj EXCEPT ![i].closed = TRUE],
        cols |-> [R.cols EXCEPT ![R.obj[i].Key][name] = 0]]

\* A SETHOOK that ends with an error.
RejectedDropsIndex(R, e) ==
    [R |-> [R EXCEPT !.cols = [k \in HookKeys |->
                                 [n \in HookNameSet |-> 0]]],
     reply |-> ErrReply(e), ev |-> << >>, updated |-> FALSE]
Rejected(R, e) ==
    [R |-> R, reply |-> ErrReply(e), ev |-> << >>, updated |-> FALSE]

\* A SETHOOK that signals a registered hook whatever the new hook is.
SameHookAlways(h, hook) == TRUE

\* The test cmdSetHook makes to decide between keeping and replacing.
SameHook(h, hook) == Equals(h, hook)

\* cmdSetHook.
SetHook(R, values, otype) ==
    LET p == ParseSetHook(values)
    IN IF p.err # ""
       THEN Rejected(R, p.err)
       ELSE
         LET name == p.hook.Name
             old == R.reg[name]
         IN IF old # 0 /\ SameHook(R.obj[old], p.hook)
            THEN [R |-> R,
                  reply |-> IF otype = "json" THEN OkReply ELSE IntReply(0),
                  ev |-> << <<"signal", old>> >>, updated |-> FALSE]
            ELSE
              LET R1 == IF old # 0 THEN CloseAndDelete(R, name) ELSE R
                  new == NewSlot(R1)
              IN [R |-> [reg |-> [R1.reg EXCEPT ![name] = new],
                         obj |-> [R1.obj EXCEPT
                                    ![new] = [p.hook EXCEPT !.opened = TRUE]],
                         cols |-> [R1.cols EXCEPT
                                     ![p.hook.Key][name] = new]],
                  reply |-> IF otype = "json" THEN OkReply ELSE IntReply(1),
                  ev |-> (IF old # 0 THEN << <<"close", old>> >> ELSE << >>)
                         \o << <<"open", new>> >>,
                  updated |-> TRUE]

\* cmdDelHook.
DelHook(R, values, otype) ==
    IF Len(values) # 2 \/ values[2] = << >>
    THEN [R |-> R, reply |-> ErrReply("invalid number of arguments"),
          ev |-> << >>, updated |-> FALSE]
    ELSE
      LET name == values[2]
          found == name \in DOMAIN R.reg /\ R.reg[name] # 0
      IN [R |-> IF found THEN CloseAndDelete(R, name) ELSE R,
          reply |-> IF otype = "json" THEN OkReply
                    ELSE IntReply(IF found THEN 1 ELSE 0),
          ev |-> IF found THEN << <<"close", R.reg[name]>> >> ELSE << >>,
          updated |-> found]

\* A PDELHOOK that compares the pattern with the name byte for byte.
PatternMatchLiteral(pattern, name) == pattern = name

\* The test cmdPDelHook makes on every registered name.
PatternMatch(pattern, name) == GlobMatch(pattern, name)

\* The loop of cmdPDelHook over the names in ns.
RECURSIVE PDelLoop(_, _, _)
PDelLoop(R, pattern, ns) ==
    IF ns = {} THEN [R |-> R, count |-> 0, ev |-> << >>]
    ELSE LET name == CHOOSE n \in ns : TRUE
             hit == PatternMatch(pattern, name) /\ R.reg[name] # 0
             R1 == IF hit THEN CloseAndDelete(R, name) ELSE R
             rest == PDelLoop(R1, pattern, ns \ {name})
         IN [R |-> rest.R,
             count |-> rest.count + (IF hit THEN 1 ELSE 0),
             ev |-> (IF hit THEN << <<"close", R.reg[name]>> >> ELSE << >>)
                    \o rest.ev]

\* cmdPDelHook.
PDelHook(R, values, otype) ==
    IF Len(values) # 2 \/ values[2] = << >>
    THEN [R |-> R, reply |-> ErrReply("invalid number of arguments"),
          ev |-> << >>, updated |-> FALSE]
    ELSE
      LET l == PDelLoop(R, values[2], {n \in HookNameSet : R.reg[n] # 0})
      IN [R |-> l.R,
          reply |-> IF otype = "json" THEN OkReply ELSE IntReply(l.count),
          ev |-> l.ev, updated |-> l.count > 0]

\* The messages the client of SpecHooks sends.
SetHookMessages ==
    { <<"sethook", n, u>> \o m \o f :
        n \in HookNameSet, u \in UrlChoices, m \in MetaChoices,
        f \in FenceChoices }
    \cup { <<"sethook", <<"a">>, <<"e", ",">>, "nearby", "fleet", "fence",
             "point">>,
           <<"sethook", <<"a">>, <<"e">>, "nearby", "fleet", "point">>,
           <<"sethook", <<"a">>, <<"e">>, "meta", "k">>,
           <<"sethook", <<"a">>, <<"e">>, "scan", "fleet">>,
           <<"sethook", <<"a">>, <<"e">>, "nearby">>,
           <<"sethook", <<"a">>>>,
           <<"sethook">> }
DelHookMessages == { <<"delhook", n>> : n \in HookNameSet }
PDelHookMessages == { <<"pdelhook", p>> : p \in GlobPatterns }

\* The record aofshrink writes for a hook.
HookRecord(h) == <<"sethook", h.Name, JoinComma(h.Endpoints)>> \o h.Values

InstallHooks(r, values, otype) ==
    /\ hreg' = r.R.reg
    /\ hobj' = r.R.obj
    /\ hcols' = r.R.cols
    /\ hout' = [Values |-> values, OutputType |-> otype, reply |-> r.reply,
                ev |-> r.ev]

\* SETHOOK handled under the exclusive lock.
SetHookCmd ==
    /\ ManagersGone(HCur)
    /\ \E values \in SetHookMessages, otype \in OutputTypes :
          InstallHooks(SetHook(HCur, values, otype), values, otype)
    /\ UNCHANGED <<hshrink, hookRest>>

\* DELHOOK handled under the exclusive lock.
DelHookCmd ==
    /\ ManagersGone(HCur)
    /\ \E values \in DelHookMessages, otype \in OutputTypes :
          InstallHooks(DelHook(HCur, values, otype), values, otype)
    /\ UNCHANGED <<hshrink, hookRest>>

\* PDELHOOK handled under the exclusive lock.
PDelHookCmd ==
    /\ ManagersGone(HCur)
    /\ \E values \in PDelHookMessages, otype \in OutputTypes :
          InstallHooks(PDelHook(HCur, values, otype), values, otype)
    /\ UNCHANGED <<hshrink, hookRest>>

\* The manager goroutine of a closed hook sees the flag and returns; the
\* hook object is no longer referenced.
ManagerExit(i) ==
    /\ hobj[i] # NoHook
    /\ hobj[i].closed
    /\ hobj' = [hobj EXCEPT ![i] = NoHook]
    /\ UNCHANGED <<hreg, hcols, hout, hshrink, hookRest>>

\* aofshrink loads the names of the hooks under the lock and sorts them.
ShrinkLoadHookNames ==
    /\ hshrink.pc = "idle"
    /\ hshrink' = [pc |-> "hooks",
                   hnames |-> SortStrings({n \in HookNameSet : hreg[n] # 0}),
                   aofbuf |-> << >>]
    /\ UNCHANGED <<hreg, hobj, hcols, hout, hookRest>>

\* aofshrink takes the lock for the next name and appends the record of its
\* hook, or nothing when the hook is gone.
ShrinkHook ==
    /\ hshrink.pc = "hooks"
    /\ hshrink.hnames # << >>
    /\ LET name == Head(hshrink.hnames)
       IN hshrink' = [hshrink EXCEPT
                        !.hnames = Tail(@),
                        !.aofbuf = IF hreg[name] = 0 THEN @
                                   ELSE Append(@, HookRecord(hobj[hreg[name]]))]
    /\ UNCHANGED <<hreg, hobj, hcols, hout, hookRest>>

\* aofshrink writes the buffer to the shrink file.
ShrinkHooksWritten ==
    /\ hshrink.pc = "hooks"
    /\ hshrink.hnames = << >>
    /\ hshrink' = NoHookPass
    /\ UNCHANGED <<hreg, hobj, hcols, hout, hookRest>>

NextHooks ==
    \/ SetHookCmd
    \/ DelHookCmd
    \/ PDelHookCmd
    \/ \E i \in HookSlots : ManagerExit(i)

SpecHooks == InitCore /\ [][NextHooks]_vars

(***************************************************************************)
(* SpecHookShrink: the pass of aofshrink over the hooks, with hook         *)
(* commands handled between its steps.                                     *)
(***************************************************************************)
\* cmdSetHook, cmdDelHook or cmdPDelHook, as the verb selects.
HookCommand(R, values, otype) ==
    CASE values[1] = "sethook" -> SetHook(R, values, otype)
      [] values[1] = "delhook" -> DelHook(R, values, otype)
      [] OTHER -> PDelHook(R, values, otype)

\* A hook command handled before the pass or between two of its steps.
PassCommand ==
    /\ ManagersGone(HCur)
    /\ \E values \in SetHookMessages \cup DelHookMessages
                      \cup PDelHookMessages :
          LET r == HookCommand(HCur, values, "resp")
          IN /\ r.updated
             /\ hreg' = r.R.reg
             /\ hobj' = r.R.obj
             /\ hcols' = r.R.cols
    /\ UNCHANGED <<hout, hshrink, hookRest>>

NextHookShrink ==
    \/ PassCommand
    \/ \E i \in HookSlots : ManagerExit(i)
    \/ ShrinkLoadHookNames
    \/ ShrinkHook
    \/ ShrinkHooksWritten

SpecHookShrink == InitCore /\ [][NextHookShrink]_vars

(***************************************************************************)
(* SpecQueue: the hook queue (queue.db, index "hooks") and the delivery    *)
(* task of every hook: Hook.manager calling Hook.proc.  Time is counted in *)
(* ticks; a queue entry is its index, the name in its "hook" field and the *)
(* ticks it has left.                                                      *)
(***************************************************************************)
\* The order of the index "hooks": by the "hook" field, then by key.
EntryLess(e, f) ==
    \/ StrLess(e.hook, f.hook)
    \/ (e.hook = f.hook /\ e.idx < f.idx)

\* A set of entries in index order.
RECURSIVE SortEntries(_)
SortEntries(S) ==
    IF S = {} THEN << >>
    ELSE LET m == CHOOSE e \in S : \A f \in S \ {e} : EntryLess(e, f)
         IN <<m>> \o SortEntries(S \ {m})

\* The entries AscendGreaterOrEqual("hooks", h.query) hands to the iterator
\* of proc, which keeps every one of them: those whose "hook" field is not
\* below the name of hook h.
Takes(h, e) == ~StrLess(e.hook, h)

\* A reinsertion that gives an entry the ticks it had when it was taken.
ResidualFull(ttl, elapsed) == ttl

\* ttls[i] - time.Since(start).
Residual(ttl, elapsed) == ttl - elapsed

\* The entries proc puts back when no endpoint took entry i of the round.
Reinserted(r) ==
    { [r.keys[k] EXCEPT !.ttl = Residual(r.keys[k].ttl, r.elapsed)] :
        k \in {j \in r.i .. Len(r.keys) :
                 Residual(r.keys[j].ttl, r.elapsed) > 0} }

\* A committed write matches the fence of hook h: its payload is put in the
\* queue under the next index with the full time to live.
Enqueue(h) ==
    /\ qidx < MaxEnqueue
    /\ qidx' = qidx + 1
    /\ queue' = queue \cup {[idx |-> qidx + 1, hook |-> h, ttl |-> HookTTL]}
    /\ UNCHANGED <<task, sent, queueRest>>

\* proc of hook h opens its round: in one transaction it reads the entries
\* from its query on and deletes them.  With nothing read the round is over
\* and reports success.
ProcTake(h) ==
    /\ task[h].pc \in {"wait", "retry"}
    /\ LET taken == {e \in queue : Takes(h, e)}
       IN /\ queue' = queue \ taken
          /\ task' = [task EXCEPT ![h] =
                        IF taken = {} THEN IdleTask("wait")
                        ELSE [pc |-> "sending", keys |-> SortEntries(taken),
                              i |-> 1, ep |-> 1, elapsed |-> 0]]
    /\ UNCHANGED <<qidx, sent, queueRest>>

\* proc of hook h sends entry i of its round to the next endpoint, and the
\* send succeeds: the round goes on with the next entry, or is over and
\* reports success.
SendOk(h) ==
    /\ task[h].pc = "sending"
    /\ LET r == task[h]
       IN /\ sent' = Append(sent, [idx |-> r.keys[r.i].idx,
                                   hook |-> r.keys[r.i].hook,
                                   by |-> h,
                                   endpoint |-> HookEndpoints(h)[r.ep]])
          /\ task' = [task EXCEPT ![h] =
                        IF r.i = Len(r.keys) THEN IdleTask("wait")
                        ELSE [r EXCEPT !.i = r.i + 1, !.ep = 1]]
    /\ UNCHANGED <<queue, qidx, queueRest>>

\* The send fails: proc goes to the next endpoint, or, after the last one,
\* puts entry i and the entries after it back and reports failure.
SendFail(h) ==
    /\ task[h].pc = "sending"
    /\ LET r == task[h]
       IN IF r.ep < Len(HookEndpoints(h))
          THEN /\ task' = [task EXCEPT ![h].ep = r.ep + 1]
               /\ queue' = queue
          ELSE /\ task' = [task EXCEPT ![h] = IdleTask("retry")]
               /\ queue' = queue \cup Reinserted(r)
    /\ UNCHANGED <<qidx, sent, queueRest>>

\* One tick passes: every entry in the queue has one tick less and is gone
\* at zero, and every open round has run one tick longer.
Tick ==
    /\ queue # {} \/ \E h \in QueueHooks : task[h].pc = "sending"
    /\ queue' = { [e EXCEPT !.ttl = e.ttl - 1] : e \in {f \in queue : f.ttl > 1} }
    /\ task' = [h \in QueueHooks |->
                  IF task[h].pc = "sending" /\ task[h].elapsed < HookTTL
                  THEN [task[h] EXCEPT !.elapsed = @ + 1]
                  ELSE task[h]]
    /\ UNCHANGED <<qidx, sent, queueRest>>

NextQueue ==
    \/ \E h \in QueueHooks : Enqueue(h)
    \/ \E h \in QueueHooks : ProcTake(h)
    \/ \E h \in QueueHooks : SendOk(h)
    \/ \E h \in QueueHooks : SendFail(h)
    \/ Tick

SpecQueue == InitCore /\ [][NextQueue]_vars

(***************************************************************************)
(* SpecScan: a SCAN command and its scanWriter.  The collection is a run   *)
(* of objects of which each one matches the pattern and the WHERE clauses  *)
(* or does not; the writer counts, skips the cursor, writes items up to    *)
(* the limit and closes the reply with the cursor of the next page.        *)
(***************************************************************************)
newScanWriter(output, globPattern, isGlob, cursor, limit) ==
    [cursor |-> cursor,
     limit |-> IF limit = 0
               THEN IF output = outputCount THEN MaxUint64 ELSE limitItems
               ELSE limit,
     output |-> output,
     count |-> 0,
     numberItems |-> 0,
     hitLimit |-> FALSE,
     globEverything |-> globPattern = "*",
     globSingle |-> globPattern # "*" /\ ~isGlob,
     values |-> 0]

globMatchAny(w, idMatches) == [ok |-> TRUE, keepGoing |-> TRUE]

\* idMatches: the id is the pattern (globSingle) or glob.Match accepts it.
globMatch(w, idMatches) ==
    IF ~w.globEverything
    THEN IF w.globSingle
         THEN IF ~idMatches
              THEN [ok |-> FALSE, keepGoing |-> TRUE]
              ELSE [ok |-> TRUE, keepGoing |-> FALSE]
         ELSE IF ~idMatches
              THEN [ok |-> FALSE, keepGoing |-> TRUE]
              ELSE [ok |-> TRUE, keepGoing |-> TRUE]
    ELSE [ok |-> TRUE, keepGoing |-> TRUE]

\* The first predicate an object fails, if any: the glob pattern, a WHERE,
\* a WHEREIN or a WHEREEVAL clause.
FieldPredicates == {"where", "wherein", "whereeval"}
fieldMatch(fails) == fails \notin FieldPredicates

ReachedLimitAfter(w) == w.numberItems > w.limit
ReachedLimit(w) == w.numberItems = w.limit

\* The writer after one object and whether the scan goes on.
writeObject(w, idMatches, fieldsOk) ==
    LET g == globMatch(w, idMatches)
        c == [w EXCEPT !.count = @ + 1]
        n == [c EXCEPT !.values = @ + 1, !.numberItems = @ + 1]
    IN IF ~g.ok \/ ~fieldsOk
       THEN [sw |-> w, ret |-> TRUE]
       ELSE IF c.count <= c.cursor
       THEN [sw |-> c, ret |-> TRUE]
       ELSE IF c.output = outputCount
       THEN [sw |-> c, ret |-> c.count < c.limit]
       ELSE IF ReachedLimit(n)
       THEN [sw |-> [n EXCEPT !.hitLimit = TRUE], ret |-> FALSE]
       ELSE [sw |-> n, ret |-> g.keepGoing]

writeFoot(w, otype) ==
    LET cursor == IF ~w.hitLimit THEN 0 ELSE w.cursor + w.numberItems
    IN IF otype = "RESP" /\ w.output = outputCount
       THEN [count |-> w.count, cursor |-> NoCursor]
       ELSE [count |-> w.count, cursor |-> cursor]

\* The test of cmdScan, and that of cmdSearch, for a COUNT that visits no
\* object; clauses are the kinds of clauses the command has.
CountsCollection(cmd, w, clauses) ==
    /\ w.output = outputCount
    /\ "where" \notin clauses
    /\ cmd = "scan" => "wherein" \notin clauses
    /\ w.globEverything

\* sw.col.Count() - int(s.cursor), and 0 when that is negative.
FastCount(size, cursor) == IF size - cursor < 0 THEN 0 ELSE size - cursor

\* cmdScan and cmdSearch up to the choice between counting the collection
\* and visiting its objects.
Started(cmd, w, cursor, limit, clauses, size) ==
    [pc |-> IF CountsCollection(cmd, w, clauses)
            THEN "count" ELSE "scanning",
     cmd |-> cmd, cursor |-> cursor, limit |-> limit, size |-> size,
     clauses |-> clauses, iterated |-> 0, failed |-> 0, fails |-> "none",
     foot |-> NoFoot]

\* The clauses of the scans of SpecScan: none or all three, and for a COUNT
\* also a WHEREEVAL alone.
ScanClauses(output) ==
    {{}, FieldPredicates}
      \cup (IF output = outputCount THEN {{"whereeval"}} ELSE {})

ScanStart ==
    /\ scan.pc \in {"idle", "done"}
    /\ \E cursor \in ScanCursors, limit \in ScanLimits,
          output \in ScanOutputs, globPattern \in ScanGlobs,
          isGlob \in BOOLEAN, size \in ColSizes :
          \E clauses \in ScanClauses(output) :
          LET w == newScanWriter(output, globPattern, isGlob, cursor, limit)
          IN /\ sw' = w
             /\ scan' = Started("scan", w, cursor, limit, clauses, size)
    /\ UNCHANGED scanRest

\* The count of the records of the collection that fail a clause of the
\* command, which a COUNT that visits no object does not evaluate.
FailingRecords ==
    IF scan.clauses = {} THEN {0} ELSE {0, 1, scan.size} \cap 0..scan.size

\* A COUNT of a whole collection visits no object.
ScanCount ==
    /\ scan.pc = "count"
    /\ sw' = [sw EXCEPT !.count = FastCount(scan.size, scan.cursor)]
    /\ \E failed \in FailingRecords :
         scan' = [scan EXCEPT !.pc = "stopped", !.failed = failed]
    /\ UNCHANGED scanRest

\* The iterator hands the next object to writeObject and stops when that
\* returns false.
ScanObject ==
    /\ scan.pc = "scanning"
    /\ scan.iterated < scan.size
    /\ \E fails \in {"none"}
                      \cup (IF sw.globEverything THEN {} ELSE {"glob"})
                      \cup scan.clauses :
          \E r \in {writeObject(sw, fails # "glob", fieldMatch(fails))} :
             /\ sw' = r.sw
             /\ scan' = [scan EXCEPT !.iterated = @ + 1,
                                     !.failed = @ + (IF fails = "none"
                                                     THEN 0 ELSE 1),
                                     !.fails = fails,
                                     !.pc = IF r.ret THEN "scanning"
                                            ELSE "stopped"]
    /\ UNCHANGED scanRest

ScanFoot ==
    /\ \/ scan.pc = "stopped"
       \/ scan.pc = "scanning" /\ scan.iterated = scan.size
    /\ \E otype \in OutputTypesOfScan :
          scan' = [scan EXCEPT !.pc = "done", !.fails = "none",
                               !.foot = writeFoot(sw, otype)]
    /\ UNCHANGED <<sw, scanRest>>

NextScan ==
    \/ ScanStart
    \/ ScanCount
    \/ ScanObject
    \/ ScanFoot

SpecScan == InitCore /\ [][NextScan]_vars

(***************************************************************************)
(* SpecCount: SCAN and SEARCH with COUNT output over small collections,    *)
(* with every choice of clauses.  The values of the collection SEARCH      *)
(* visits are all strings.                                                 *)
(***************************************************************************)
CountCmds == {"scan", "search"}
CountSizes == 0..MaxCounted
CountCursors == {0, 1, MaxCounted + 1}
CountLimits == {0, 1, 2}

\* One command in a behaviour.
CountStart ==
    /\ scan.pc = "idle"
    /\ \E cmd \in CountCmds, cursor \in CountCursors, limit \in CountLimits,
          globPattern \in ScanGlobs, clauses \in SUBSET FieldPredicates,
          size \in CountSizes :
          LET w == newScanWriter(outputCount, globPattern, TRUE, cursor,
                                 limit)
          IN /\ sw' = w
             /\ scan' = Started(cmd, w, cursor, limit, clauses, size)
    /\ UNCHANGED scanRest

NextCount ==
    \/ CountStart
    \/ ScanCount
    \/ ScanObject
    \/ ScanFoot

SpecCount == InitCore /\ [][NextCount]_vars

(***************************************************************************)
(* SpecClient: the connections of the server and the CLIENT command.       *)
(* GETNAME and SETNAME touch no socket and no entry of c.conns and are     *)
(* left out.                                                               *)
(***************************************************************************)
LowerChar(ch) ==
    CASE ch = "A" -> "a"
      [] ch = "D" -> "d"
      [] ch = "I" -> "i"
      [] ch = "K" -> "k"
      [] ch = "L" -> "l"
      [] ch = "R" -> "r"
      [] OTHER -> ch
ToLower(s) == [i \in DOMAIN s |-> LowerChar(s[i])]
\* strings.Contains(arg, ":")
HasColon(arg) == \E i \in DOMAIN arg : arg[i] = ":"
\* fmt.Sprintf("%d", id) for the ids of the model.
IdString(n) ==
    CASE n = 0 -> <<"0">>
      [] n = 1 -> <<"1">>
      [] n = 2 -> <<"2">>
      [] n = 3 -> <<"3">>
      [] n = 4 -> <<"4">>
      [] OTHER -> <<"5">>

NoSel ==
    [useAddr |-> FALSE, addr |-> << >>, useID |-> FALSE, id |-> << >>,
     err |-> ""]

\* The loop of CLIENT KILL over its arguments from position i on.
RECURSIVE KillArgs(_, _, _)
KillArgs(values, i, sel) ==
    IF i > Len(values) THEN sel
    ELSE LET arg == values[i]
         IN IF HasColon(arg)
            THEN [sel EXCEPT !.addr = arg, !.useAddr = TRUE]
            ELSE IF ToLower(arg) = <<"a", "d", "d", "r">>
            THEN IF i + 1 > Len(values)
                 THEN [sel EXCEPT !.err = "syntax error"]
                 ELSE KillArgs(values, i + 2,
                               [sel EXCEPT !.addr = values[i + 1],
                                           !.useAddr = TRUE])
            ELSE IF ToLower(arg) = <<"i", "d">>
            THEN IF i + 1 > Len(values)
                 THEN [sel EXCEPT !.err = "syntax error"]
                 ELSE KillArgs(values, i + 2,
                               [sel EXCEPT !.id = values[i + 1],
                                           !.useID = TRUE])
            ELSE [sel EXCEPT !.err = "No such client"]

\* The test of the loop over c.conns.
KillMatchesAny(sel, k) == TRUE
KillMatches(sel, k) ==
    \/ sel.useID /\ IdString(conns[k].id) = sel.id
    \/ sel.useAddr /\ RemoteAddr(k) = sel.addr

\* A write to or a close of the socket of connection k, and whether the
\* socket was open.
SockEvent(op, k, open) == [op |-> op, conn |-> k, open |-> open]

\* What CLIENT KILL does with c.conns[t] as cclose: the connection it
\* closes and its writes and closes, in order.
KillDone(self, t) ==
    [reply |-> OkReply,
     closed |-> {t},
     events |-> IF t = self
                THEN <<SockEvent("write", t, conns[t].open),
                       SockEvent("close", t, conns[t].open)>>
                ELSE <<SockEvent("close", t, conns[t].open)>>]
KillFailed(e) == [reply |-> ErrReply(e), closed |-> {}, events |-> << >>]

ClientTok == <<"c", "l", "i", "e", "n", "t">>
KillTok == <<"k", "i", "l", "l">>
ListTok == <<"l", "i", "s", "t">>
\* What cmdClient can do with a message of connection self.  The loop over
\* c.conns stops at the first connection that matches, in the order the map
\* hands them out: any connection of c.conns that matches can be the one.
ClientResults(values, self) ==
    IF Len(values) = 1
    THEN {KillFailed("wrong number of arguments")}
    ELSE IF ToLower(values[2]) = ListTok
    THEN {[reply |-> OkReply, closed |-> {}, events |-> << >>]}
    ELSE IF ToLower(values[2]) # KillTok
    THEN {KillFailed("Syntax error")}
    ELSE IF Len(values) < 3
    THEN {KillFailed("wrong number of arguments")}
    ELSE LET sel == KillArgs(values, 3, NoSel)
             found == {k \in ConnSet : conns[k].reg /\ KillMatches(sel, k)}
         IN IF sel.err # "" THEN {KillFailed(sel.err)}
            ELSE IF found = {} THEN {KillFailed("No such client")}
            ELSE {KillDone(self, t) : t \in found}

ClientMessages ==
    { <<ClientTok>>, <<ClientTok, ListTok>>, <<ClientTok, <<"x">>>>,
      <<ClientTok, KillTok>>,
      <<ClientTok, KillTok, <<"x">>>>,
      <<ClientTok, KillTok, <<"i", "d">>>>,
      <<ClientTok, KillTok, <<"a", "d", "d", "r">>>>,
      <<ClientTok, <<"K", "i", "l", "l">>, <<"I", "D">>, <<"1">>>>,
      <<ClientTok, KillTok, <<"i", "d">>, <<"2">>>>,
      <<ClientTok, KillTok, <<"i", "d">>, <<"0", "2">>>>,
      <<ClientTok, KillTok, <<"i", "d">>, <<"4">>>>,
      <<ClientTok, KillTok, <<"h", ":", "1">>>>,
      <<ClientTok, KillTok, <<"h", ":", "3">>, <<"i", "d">>, <<"1">>>>,
      <<ClientTok, KillTok, <<"a", "d", "d", "r">>, <<"h", ":", "2">>>>,
      <<ClientTok, KillTok, <<"a", "d", "d", "r">>, <<"h", ":", "9">>>>,
      <<ClientTok, KillTok, <<"i", "d">>, <<"1">>,
        <<"a", "d", "d", "r">>, <<"h", ":", "2">>>> }

\* The opened callback of the server.
ConnOpened(k) ==
    /\ ~conns[k].reg
    /\ clientID < MaxClientID
    /\ clientID' = clientID + 1
    /\ conns' = [conns EXCEPT ![k] = [id |-> clientID + 1, reg |-> TRUE,
                                      open |-> TRUE]]
    /\ UNCHANGED <<kill, clientRest>>

\* The connection ends, by its client or after its socket was closed, and
\* the closed callback of the server takes it out of c.conns.
ConnClosed(k) ==
    /\ conns[k].reg
    /\ conns' = [conns EXCEPT ![k] = [@ EXCEPT !.reg = FALSE,
                                               !.open = FALSE]]
    /\ UNCHANGED <<clientID, kill, clientRest>>

\* A CLIENT command of connection self and the write of its reply.
ClientCommand(self) ==
    /\ conns[self].reg /\ conns[self].open
    /\ \E values \in ClientMessages :
          \E r \in ClientResults(values, self) :
             /\ conns' = [k \in ConnSet |->
                            IF k \in r.closed
                            THEN [conns[k] EXCEPT !.open = FALSE]
                            ELSE conns[k]]
             /\ kill' = [conn |-> self, values |-> values,
                         reply |-> r.reply,
                         events |-> r.events
                                    \o <<SockEvent("write", self,
                                                   conns'[self].open)>>]
    /\ UNCHANGED <<clientID, clientRest>>

NextClient ==
    \/ \E k \in ConnSet : ConnOpened(k)
    \/ \E k \in ConnSet : ConnClosed(k)
    \/ \E k \in ConnSet : ClientCommand(k)

SpecClient == InitCore /\ [][NextClient]_vars

(***************************************************************************)
(* SpecLoops: the background loops ListenAndServeEx starts and the stop    *)
(* flags it sets when it returns.  A step of a loop is one tick of its     *)
(* ticker with the body of the loop.                                       *)
(***************************************************************************)
StopSet(l) == StopFlagOf(l) # "none" /\ stopFlags[StopFlagOf(l)]
\* ListenAndServeEx has returned and its deferred function has run.
ServerReturned == stopFlags.stopWatchingAutoGC

\* The loop after a tick on which it went on, or returned.
Continued(l) ==
    [loops EXCEPT ![l].late =
        IF ServerReturned /\ @ < MaxLate THEN @ + 1 ELSE @]
Returned(l) == [loops EXCEPT ![l].pc = "exited"]

\* What the test of the stop flag in the body of watchOutOfMemory does when
\* the flag is on: its return ends the function literal of the iteration,
\* and the for loop goes on.
MemoryStop == Continued("memory")

\* The deferred function of ListenAndServeEx.
StopLoops ==
    /\ ~stopFlags.stopWatchingAutoGC
    /\ stopFlags' = [stopFlags EXCEPT !.stopBackgroundExpiring = TRUE,
                                      !.stopWatchingMemory = TRUE,
                                      !.stopWatchingAutoGC = TRUE]
    /\ UNCHANGED <<loops, watch, loopsRest>>

\* CONFIG SET of autogc and maxmemory.
SetLoopConfig ==
    /\ \E a \in AutoGCChoices, m \in MaxMemoryChoices :
          watch' = [watch EXCEPT !.autoGC = a, !.maxMemory = m]
    /\ UNCHANGED <<stopFlags, loops, loopsRest>>

watchAutoGC ==
    /\ loops["autogc"].pc = "running"
    /\ IF stopFlags.stopWatchingAutoGC
       THEN loops' = Returned("autogc") /\ watch' = watch
       ELSE /\ loops' = Continued("autogc")
            /\ watch' = IF watch.autoGC = 0
                        THEN [watch EXCEPT !.since =
                                 IF \E a \in AutoGCChoices : @ < a
                                 THEN @ + 1 ELSE @]
                        ELSE IF watch.since + 1 < watch.autoGC
                        THEN [watch EXCEPT !.since = @ + 1]
                        ELSE [watch EXCEPT !.since = 0]
    /\ UNCHANGED <<stopFlags, loopsRest>>

watchOutOfMemory ==
    /\ loops["memory"].pc = "running"
    /\ IF stopFlags.stopWatchingMemory
       THEN loops' = MemoryStop /\ watch' = watch
       ELSE /\ loops' = Continued("memory")
            /\ IF watch.maxMemory = 0
               THEN watch' = [watch EXCEPT !.outOfMemory = FALSE]
               ELSE \E heapOver \in BOOLEAN :
                       watch' = [watch EXCEPT !.outOfMemory = heapOver]
    /\ UNCHANGED <<stopFlags, loopsRest>>

watchLuaStatePool ==
    /\ loops["luapool"].pc = "running"
    /\ loops' = Continued("luapool")
    /\ UNCHANGED <<stopFlags, watch, loopsRest>>

backgroundExpiring ==
    /\ loops["expirer"].pc = "running"
    /\ loops' = IF stopFlags.stopBackgroundExpiring
                THEN Returned("expirer")
                ELSE Continued("expirer")
    /\ UNCHANGED <<stopFlags, watch, loopsRest>>

NextLoops ==
    \/ StopLoops
    \/ SetLoopConfig
    \/ watchAutoGC
    \/ watchOutOfMemory
    \/ watchLuaStatePool
    \/ backgroundExpiring

SpecLoops == InitCore /\ [][NextLoops]_vars

(***************************************************************************)
(* The collections and the expiration index over several keys.  c.cols is  *)
(* a map from keys to collections and c.expires a map from keys to maps    *)
(* from ids to deadlines; a map is a function on the keys it holds.        *)
(***************************************************************************)
MapPut(f, k, v) == [x \in DOMAIN f \cup {k} |-> IF x = k THEN v ELSE f[x]]
MapDel(f, k) == [x \in DOMAIN f \ {k} |-> f[x]]

\* c.getCol(key) # nil.
HasCol(S, key) == key \in DOMAIN S.cols
HasId(S, key, id) == HasCol(S, key) /\ id \in S.cols[key]
HasDeadline(S, key, id) ==
    key \in DOMAIN S.expires /\ id \in DOMAIN S.expires[key]

\* The objects of the store, and the entries of the expiration index.
Cells(S) == { <<k, i>> : k \in DOMAIN S.cols, i \in CopyIds } \cap
            { c \in CopyKeys \X CopyIds : c[2] \in S.cols[c[1]] }
Entries(S) == { c \in CopyKeys \X CopyIds : HasDeadline(S, c[1], c[2]) }

\* The expiration index with the entry of one id set, the entry of one id
\* cleared, and the entries of one key cleared.
expireAt(S, key, id, at) ==
    LET m == IF key \in DOMAIN S.expires THEN S.expires[key] ELSE NoMap
    IN [S EXCEPT !.expires = MapPut(S.expires, key, MapPut(m, id, at))]
clearIDExpires(S, key, id) ==
    IF HasDeadline(S, key, id)
    THEN [S EXCEPT !.expires[key] = MapDel(@, id)]
    ELSE S
clearKeyExpires(S, key) == [S EXCEPT !.expires = MapDel(@, key)]

\* What a handler returns: the store, and whether it changed anything.
Wrote(S) == [S |-> S, updated |-> TRUE]
Same(S) == [S |-> S, updated |-> FALSE]

\* SET key id [EX seconds] ...
setObject(S, key, id, ex) ==
    LET col == IF HasCol(S, key) THEN S.cols[key] ELSE {}
        S1 == [S EXCEPT !.cols = MapPut(S.cols, key, col \cup {id})]
        S2 == clearIDExpires(S1, key, id)
    IN Wrote(IF ex = "none" THEN S2 ELSE expireAt(S2, key, id, ex))

delObjectKeepsDeadline(S, key, id) ==
    IF ~HasId(S, key, id) THEN Same(S)
    ELSE Wrote([S EXCEPT !.cols[key] = @ \ {id}])

\* DEL key id: the id leaves its collection and the expiration index, and
\* a collection left empty leaves c.cols.
delObject(S, key, id) ==
    IF ~HasId(S, key, id) THEN Same(S)
    ELSE LET S1 == IF S.cols[key] = {id}
                   THEN [S EXCEPT !.cols = MapDel(@, key)]
                   ELSE [S EXCEPT !.cols[key] = @ \ {id}]
         IN Wrote(clearIDExpires(S1, key, id))

\* DROP key.
dropCol(S, key) ==
    IF ~HasCol(S, key) THEN Same(S)
    ELSE Wrote(clearKeyExpires([S EXCEPT !.cols = MapDel(@, key)], key))

\* FLUSHDB.
flushDB(S) == Wrote([cols |-> NoMap, expires |-> NoMap])

\* EXPIRE key id seconds, and PERSIST key id.
expireID(S, key, id, ex) ==
    IF HasId(S, key, id) THEN Wrote(expireAt(S, key, id, ex)) ELSE Same(S)
persistID(S, key, id) ==
    IF HasDeadline(S, key, id) /\ HasId(S, key, id)
    THEN Wrote(clearIDExpires(S, key, id))
    ELSE Same(S)

resetKeepsDeadlines(S) == [cols |-> NoMap, expires |-> S.expires]

\* Controller.reset.
reset(S) == [cols |-> NoMap, expires |-> NoMap]

\* A write command: SET with "none" for no EX; the seconds of an EX or an
\* EXPIRE are 100 ms or more ("later") or less ("soon").
Msg(cmd, key, id, ex) == [cmd |-> cmd, key |-> key, id |-> id, ex |-> ex]

handle(S, m) ==
    CASE m.cmd = "set" -> setObject(S, m.key, m.id, m.ex)
      [] m.cmd = "del" -> delObject(S, m.key, m.id)
      [] m.cmd = "drop" -> dropCol(S, m.key)
      [] m.cmd = "flushdb" -> flushDB(S)
      [] m.cmd = "expire" -> expireID(S, m.key, m.id, m.ex)
      [] m.cmd = "persist" -> persistID(S, m.key, m.id)

\* The writes of the clients while aofshrink copies: a key before and at
\* the key the second batch starts at, an id before, at and after the id
\* the second batch of the big collection starts at, and deadlines.
CopyMessages ==
    { Msg("set", maxkeys + 1, 1, "none"), Msg("drop", maxkeys + 2, 0, "none"),
      Msg("set", BigKey, maxids + 1, "none"),
      Msg("del", BigKey, maxids + 2, "none"),
      Msg("set", BigKey, maxids + 3, "later"),
      Msg("set", 3, 1, "soon") }

\* The writes of the clients of SpecStore: two ids of a small collection
\* and one of the big one, with and without deadlines.
StoreCells == { <<1, 1>>, <<1, 2>>, <<BigKey, 1>> }
StoreMessages ==
    { Msg(cmd, c[1], c[2], "none") :
        cmd \in {"set", "del", "persist"}, c \in StoreCells }
    \cup { Msg(cmd, c[1], c[2], ex) :
             cmd \in {"set", "expire"}, c \in StoreCells,
             ex \in {"later", "soon"} }
    \cup { Msg("drop", k, 0, "none") : k \in {1, BigKey, maxkeys + 1} }
    \cup { Msg("flushdb", 0, 0, "none") }

\* The ids held in every state since the shrink began.
StillHeld(stable, S) == stable \cap Cells(S)

\* A write that changed the store goes to c.shrinklog while c.shrinking.
Journalled(r, m) ==
    IF r.updated /\ shr.shrinking
    THEN [shr EXCEPT !.shrinklog = Append(@, m)]
    ELSE shr

Commit(m, counted) ==
    LET r == handle(store, m)
    IN /\ store' = r.S
       /\ shr' = Journalled(r, m)
       /\ trail' = [trail EXCEPT
                      !.stable = StillHeld(@, r.S),
                      !.writes = IF counted THEN @ + 1 ELSE @,
                      !.last = m.cmd,
                      !.cleared = Entries(store) \ Entries(r.S)]

\* A write command of a client of SpecStore, handled under c.mu.
StoreCommand ==
    /\ cmu = ""
    /\ \E m \in StoreMessages : Commit(m, FALSE)
    /\ UNCHANGED <<cmu, copyRest>>

\* Controller.reset.
Reset ==
    /\ cmu = ""
    /\ store' = reset(store)
    /\ trail' = [trail EXCEPT !.stable = {}, !.last = "reset",
                              !.cleared = Entries(store)]
    /\ UNCHANGED <<cmu, shr, copyRest>>

\* A write command of a client of SpecCopy, handled under c.mu.
ForegroundWrite ==
    /\ cmu = ""
    /\ trail.writes < MaxCopyWrites
    /\ \E m \in CopyMessages : Commit(m, TRUE)
    /\ UNCHANGED <<cmu, copyRest>>

\* The clock passes a mark of one deadline.
Later(at) == IF at = "later" THEN "soon" ELSE "due"
TimePasses ==
    /\ \E c \in Entries(store) :
         /\ store.expires[c[1]][c[2]] # "due"
         /\ store' = [store EXCEPT !.expires[c[1]][c[2]] = Later(@)]
    /\ UNCHANGED <<cmu, shr, trail, copyRest>>

\* The expirer: a DEL of an id whose deadline is reached, through the
\* write path.
Expire ==
    /\ cmu = ""
    /\ \E c \in Entries(store) :
         /\ store.expires[c[1]][c[2]] = "due"
         /\ Commit(Msg("del", c[1], c[2], "none"), FALSE)
    /\ UNCHANGED <<cmu, copyRest>>

(***************************************************************************)
(* aofshrink.  Each closure that takes c.mu is two steps, the Lock and the *)
(* body with the deferred Unlock; the code between two closures belongs to *)
(* the step before it.                                                     *)
(***************************************************************************)
\* The n least members of a set of keys or ids.
Least(S, n) == { x \in S : Cardinality({ y \in S : y < x }) < n }
GreaterThan(S, pivot) == { x \in S : x > pivot }
\* c.scanGreaterOrEqual and col.ScanGreaterOrEqual.
GreaterOrEqual(S, pivot) == { x \in S : x >= pivot }

\* The least of a set of keys or ids.
Min(S) == CHOOSE x \in S : \A y \in S : x <= y

\* The member of a set of keys or ids at a place of the ascending order,
\* and the set as the sequence in that order.
Nth(S, i) == CHOOSE x \in S : Cardinality({ y \in S : y < x }) = i - 1
Ascending(S) == [i \in 1 .. Cardinality(S) |-> Nth(S, i)]

\* What the iterator of c.scanGreaterOrEqual leaves when it stops at a key
\* more than maxkeys: the keys appended, and the key it stopped at.
KeysLoaded(sh, got, more) ==
    [sh EXCEPT !.keys = Ascending(got),
               !.keysdone = (more = {}),
               !.nextkey = IF more = {} THEN @ ELSE Min(more)]

LoadKeysNone(sh, S) == [sh EXCEPT !.keys = << >>, !.keysdone = FALSE]

\* The closure that loads keys: up to maxkeys keys from nextkey on; a key
\* more becomes nextkey.
LoadKeys(sh, S) ==
    CHOOSE r \in UNION
      { { KeysLoaded(sh, got, all \ got) : got \in {Least(all, maxkeys)} } :
          all \in {GreaterOrEqual(DOMAIN S.cols, sh.nextkey)} } :
      TRUE

ExClauseAlways(S, key, id) ==
    IF ~HasDeadline(S, key, id) THEN "none"
    ELSE IF S.expires[key][id] = "later" THEN "later" ELSE "soon"

\* The EX clause of a copied id: none without a deadline and none when
\* expires > 0 fails; else the seconds floored to tenths, which is 0 for
\* less than 100 ms.
ExClause(S, key, id) ==
    IF ~HasDeadline(S, key, id) THEN "none"
    ELSE IF S.expires[key][id] = "due" THEN "none"
    ELSE S.expires[key][id]

\* The SET records of ids of a collection, in the order of the scan.
SetRecords(S, key, ids) ==
    [i \in 1 .. Cardinality(ids) |->
       Msg("set", key, Nth(ids, i), ExClause(S, key, Nth(ids, i)))]

\* What the iterator of col.ScanGreaterOrEqual leaves when it stops at an
\* id more than maxids: the records written, and the id it stopped at.
ObjectsLoaded(sh, S, got, more) ==
    [sh EXCEPT !.idsdone = (more = {}),
               !.file = @ \o SetRecords(S, Head(sh.keys), got),
               !.nextid = IF more = {} THEN @ ELSE Min(more)]

LoadObjectsAll(sh, S) ==
    CHOOSE r \in { ObjectsLoaded(sh, S, all, {}) :
                     all \in {GreaterOrEqual(
                                IF HasCol(S, Head(sh.keys))
                                THEN S.cols[Head(sh.keys)] ELSE {},
                                sh.nextid)} } :
      TRUE

\* The closure that loads objects: up to maxids ids of keys[0] from nextid
\* on, each written as a SET; an id more becomes nextid.
LoadObjects(sh, S) ==
    IF ~HasCol(S, Head(sh.keys)) THEN [sh EXCEPT !.idsdone = TRUE]
    ELSE CHOOSE r \in UNION
           { { ObjectsLoaded(sh, S, got, all \ got) :
                 got \in {Least(all, maxids)} } :
               all \in {GreaterOrEqual(S.cols[Head(sh.keys)], sh.nextid)} } :
           TRUE

\* The code from the end of one closure to the Lock of the next one.
RECURSIVE Onward(_)
Onward(sh) ==
    IF sh.pc = "outer"
    THEN IF sh.keys = << >>
         THEN IF sh.keysdone THEN [sh EXCEPT !.pc = "hooks"]
              ELSE [sh EXCEPT !.pc = "keys", !.keysdone = TRUE]
         ELSE Onward([sh EXCEPT !.pc = "inner", !.idsdone = FALSE,
                                !.nextid = 0])
    ELSE IF sh.pc = "inner"
    THEN IF sh.idsdone
         THEN Onward([sh EXCEPT !.pc = "outer", !.keys = Tail(@)])
         ELSE [sh EXCEPT !.pc = "ids"]
    ELSE sh

\* The steps of aofshrink that take c.mu.
LockPoints == {"start", "keys", "ids", "hooks", "final", "end"}

\* AOFSHRINK: the goroutine starts.
aofshrinkCalled ==
    /\ shr.pc = "idle"
    /\ shr' = [shr EXCEPT !.pc = "start"]
    /\ UNCHANGED <<store, cmu, trail, copyRest>>

\* c.mu.Lock().
aofshrinkLock ==
    /\ shr.pc \in LockPoints
    /\ cmu = ""
    /\ cmu' = "shrink"
    /\ UNCHANGED <<store, shr, trail, copyRest>>

\* c.shrinking = true, and os.Create, which may fail.
aofshrinkBegin ==
    /\ shr.pc = "start"
    /\ cmu = "shrink"
    /\ cmu' = ""
    /\ \E created \in BOOLEAN :
         shr' = IF created
                THEN Onward([NoShrink EXCEPT !.shrinking = TRUE,
                                             !.pc = "outer"])
                ELSE [NoShrink EXCEPT !.shrinking = TRUE, !.pc = "end"]
    /\ trail' = [trail EXCEPT !.stable = Cells(store), !.deadlined = {},
                              !.copied = 0, !.swapped = FALSE]
    /\ UNCHANGED <<store, copyRest>>

aofshrinkKeys ==
    /\ shr.pc = "keys"
    /\ cmu = "shrink"
    /\ cmu' = ""
    /\ shr' = Onward([LoadKeys(shr, store) EXCEPT !.pc = "outer"])
    /\ UNCHANGED <<store, trail, copyRest>>

\* The closure that loads objects, and f.Write of a buffer above maxchunk,
\* which may fail.
aofshrinkObjects ==
    /\ shr.pc = "ids"
    /\ cmu = "shrink"
    /\ cmu' = ""
    /\ \E sh \in {LoadObjects(shr, store)} :
         /\ \E written \in BOOLEAN :
              shr' = IF written THEN Onward([sh EXCEPT !.pc = "inner"])
                     ELSE [sh EXCEPT !.pc = "end"]
         /\ trail' = [trail EXCEPT
                        !.deadlined = @ \cup
                          ( { <<sh.file[i].key, sh.file[i].id>> :
                                i \in (Len(shr.file) + 1) .. Len(sh.file) }
                            \cap Entries(store) )]
    /\ UNCHANGED <<store, copyRest>>

\* The closure that reads the names of the hooks; SpecHookShrink has the
\* pass over the hooks.  Then f.Write and f.Sync, which may fail.
aofshrinkHooks ==
    /\ shr.pc = "hooks"
    /\ cmu = "shrink"
    /\ cmu' = ""
    /\ \E written \in BOOLEAN :
         shr' = [shr EXCEPT !.pc = IF written THEN "final" ELSE "end"]
    /\ UNCHANGED <<store, trail, copyRest>>

\* The last closure: c.shrinklog goes to the file and the files are
\* swapped, unless f.Write or f.Sync fails.
aofshrinkSwap ==
    /\ shr.pc = "final"
    /\ cmu = "shrink"
    /\ cmu' = ""
    /\ \E written \in BOOLEAN :
         /\ shr' = IF written
                   THEN [shr EXCEPT !.pc = "end", !.file = @ \o shr.shrinklog]
                   ELSE [shr EXCEPT !.pc = "end"]
         /\ trail' = [trail EXCEPT
                        !.copied = IF written THEN Len(shr.file) ELSE 0,
                        !.swapped = written]
    /\ UNCHANGED <<store, copyRest>>

\* The deferred closure.
aofshrinkEnd ==
    /\ shr.pc = "end"
    /\ cmu = "shrink"
    /\ cmu' = ""
    /\ shr' = [shr EXCEPT !.pc = "idle", !.shrinking = FALSE,
                          !.shrinklog = << >>]
    /\ UNCHANGED <<store, trail, copyRest>>

CopySteps ==
    \/ aofshrinkLock
    \/ aofshrinkBegin
    \/ aofshrinkKeys
    \/ aofshrinkObjects
    \/ aofshrinkHooks
    \/ aofshrinkSwap
    \/ aofshrinkEnd

NextStore ==
    \/ StoreCommand
    \/ Reset
    \/ TimePasses
    \/ Expire

SpecStore == InitCore /\ [][NextStore]_vars

NextCopy ==
    \/ aofshrinkCalled
    \/ CopySteps
    \/ ForegroundWrite
    \/ TimePasses
    \/ Expire

SpecCopy == InitCore /\ [][NextCopy]_vars

\* The scheduler runs the goroutine of aofshrink, and c.mu is granted.
SpecCopyLive == SpecCopy /\ WF_vars(CopySteps)

(***************************************************************************)
(* Hook.Open, Hook.Close, Hook.Signal and Hook.manager.  The manager of a  *)
(* hook is at "off" before Open, at "top" before h.mu.Lock() of the outer  *)
(* loop, at "locked" before the test of h.closed, at "sending" in proc     *)
(* after the transaction that read the queue, at "sleep" in time.Sleep, at *)
(* "wait" in h.cond.Wait(), at "woken" after a Broadcast and before Wait   *)
(* has h.mu again, and at "done" after its return.  mu says that the       *)
(* manager holds h.mu; Open, Close and Signal hold it within one step.     *)
(***************************************************************************)
\* h.cond.Broadcast().
Broadcast(H) == IF H.pc = "wait" THEN [H EXCEPT !.pc = "woken"] ELSE H

\* Hook.Open.
Open(H) ==
    IF H.opened THEN H ELSE [H EXCEPT !.opened = TRUE, !.pc = "top"]

\* Hook.Close.
Close(H) ==
    IF H.closed THEN H ELSE Broadcast([H EXCEPT !.closed = TRUE])

\* Hook.Signal.
Signal(H) == Broadcast(H)

SeesNoClose(H) == FALSE

\* if h.closed, in the inner loop of the manager.
SeesClosed(H) == H.closed

procLocksController == {"c.mu"}

\* The locks of the controller Hook.proc takes: none; it takes the lock of
\* queue.db and sends.
procLocks == {}

\* proc can take its locks.
ProcLocksFree == procLocks = {} \/ ctl.mu = ""

\* h.mu.Lock() at the top of the outer loop and after time.Sleep.
managerLock(h) ==
    /\ hk[h].pc \in {"top", "sleep"}
    /\ ~hk[h].mu
    /\ hk' = [hk EXCEPT ![h].mu = TRUE, ![h].pc = "locked"]
    /\ UNCHANGED <<hq, ctl, hist, mgrRest>>

\* h.closed is set: h.mu.Unlock() and return.
managerReturn(h) ==
    /\ hk[h].pc = "locked"
    /\ SeesClosed(hk[h])
    /\ hk' = [hk EXCEPT ![h].mu = FALSE, ![h].pc = "done"]
    /\ UNCHANGED <<hq, ctl, hist, mgrRest>>

\* The transaction of proc that reads and deletes the entries; without
\* entries proc returns true and the manager goes to h.cond.Wait().
procRead(h) ==
    /\ hk[h].pc = "locked"
    /\ ~SeesClosed(hk[h])
    /\ ProcLocksFree
    /\ \E keys \in {{ e \in hq : Takes(h, e) }} :
         /\ hq' = hq \ keys
         /\ hk' = IF keys = {}
                  THEN [hk EXCEPT ![h].mu = FALSE, ![h].pc = "wait"]
                  ELSE [hk EXCEPT ![h].pc = "sending", ![h].keys = keys]
         /\ hist' = [hist EXCEPT
                       !.picked = @ \cup { e \in keys : e.hook = h }]
    /\ UNCHANGED <<ctl, mgrRest>>

\* Every entry of the round was sent: proc returns true and the manager
\* goes to h.cond.Wait(), which releases h.mu.
procSent(h) ==
    /\ hk[h].pc = "sending"
    /\ hk' = [hk EXCEPT ![h].mu = FALSE, ![h].pc = "wait", ![h].keys = {}]
    /\ UNCHANGED <<hq, ctl, hist, mgrRest>>

\* A send failed at every endpoint: the entries from that one on whose TTL
\* is left go back to the queue, proc returns false and the manager goes
\* to h.mu.Unlock() and time.Sleep.
procFailed(h) ==
    /\ hk[h].pc = "sending"
    /\ \E keep \in SUBSET hk[h].keys :
         hq' = hq \cup keep
    /\ hk' = [hk EXCEPT ![h].mu = FALSE, ![h].pc = "sleep", ![h].keys = {}]
    /\ UNCHANGED <<ctl, hist, mgrRest>>

\* h.cond.Wait() has h.mu again and returns; h.mu.Unlock().
managerWoken(h) ==
    /\ hk[h].pc = "woken"
    /\ ~hk[h].mu
    /\ hk' = [hk EXCEPT ![h].pc = "top"]
    /\ UNCHANGED <<hq, ctl, hist, mgrRest>>

\* The steps of the manager of a hook, and those of them that end: a send
\* returns, a sleep is over, a mutex that is free is had.
ManagerSteps(h) ==
    \/ managerLock(h)
    \/ managerReturn(h)
    \/ procRead(h)
    \/ procSent(h)
    \/ procFailed(h)
    \/ managerWoken(h)

(***************************************************************************)
(* The holders of c.mu that call a hook: a handler that opens or closes a  *)
(* hook, the write path that puts an entry into the queue and signals the  *)
(* hook, and aofshrink, which locks hook.mu to read the hook.              *)
(***************************************************************************)
HookCalls == {"open", "close", "signal", "shrink"}

\* c.mu.Lock() of a handler or of aofshrink.
lockController ==
    /\ ctl.mu = ""
    /\ \E kind \in HookCalls \cup {"put"}, h \in QueueHooks :
         /\ kind \in {"put", "shrink"} => hk[h].opened /\ ~hk[h].closed
         /\ kind = "put" => ctl.n < MaxPayloads
         /\ kind # "signal"
         /\ ctl' = [ctl EXCEPT
                      !.mu = IF kind = "shrink" THEN "shrink" ELSE "router",
                      !.call = [kind |-> kind, hook |-> h]]
    /\ UNCHANGED <<hk, hq, hist, mgrRest>>

\* The entry of a hook goes into queue.db; Signal is next.
putEntry ==
    /\ ctl.call.kind = "put"
    /\ hq' = hq \cup {[hook |-> ctl.call.hook, idx |-> ctl.n + 1]}
    /\ ctl' = [ctl EXCEPT !.n = @ + 1, !.call.kind = "signal"]
    /\ UNCHANGED <<hk, hist, mgrRest>>

\* What a call does to the hook.
Called(kind, H) ==
    CASE kind = "open" -> Open(H)
      [] kind = "close" -> Close(H)
      [] kind = "signal" -> Signal(H)
      [] kind = "shrink" -> H

\* The call has h.mu, runs and returns, and the holder of c.mu unlocks.
callHook ==
    /\ ctl.call.kind \in HookCalls
    /\ ~hk[ctl.call.hook].mu
    /\ hk' = [hk EXCEPT ![ctl.call.hook] = Called(ctl.call.kind, @)]
    /\ ctl' = [ctl EXCEPT !.mu = "", !.call = NoCall]
    /\ hist' = IF ctl.call.kind = "signal"
               THEN [hist EXCEPT
                       !.signalled = @ \cup {[hook |-> ctl.call.hook,
                                              idx |-> ctl.n]}]
               ELSE hist
    /\ UNCHANGED <<hq, mgrRest>>

\* The TTL of an entry of the queue elapses.
entryExpires ==
    /\ \E e \in hq :
         /\ hq' = hq \ {e}
         /\ hist' = [hist EXCEPT !.expired = @ \cup {e}]
    /\ UNCHANGED <<hk, ctl, mgrRest>>

NextManager ==
    \/ \E h \in QueueHooks : ManagerSteps(h)
    \/ lockController
    \/ putEntry
    \/ callHook
    \/ entryExpires

SpecManager == InitCore /\ [][NextManager]_vars

\* The scheduler runs the manager of every hook and the holder of c.mu.
SpecManagerLive ==
    /\ SpecManager
    /\ \A h \in QueueHooks : WF_vars(ManagerSteps(h))
    /\ WF_vars(putEntry \/ callHook)

(***************************************************************************)
(* SpecQuery: NEARBY with and without a radius, WITHIN, INTERSECTS, SCAN   *)
(* and SEARCH over a collection, given as the records in the order the     *)
(* iterator of the collection hands them over.  Every command has an       *)
(* explicit LIMIT and writes ids; a pattern with a wildcard refuses a      *)
(* record as a WHERE clause does.                                          *)
(***************************************************************************)
\* The sequences over S of at most n elements.
SeqsUpTo(S, n) == UNION { [1..k -> S] : k \in 0..n }

\* The callback of sw.col.NearestNeighbors in nearestNeighbors: the records
\* accepted among the first n of col, as the loop collects them, and whether
\* the iterator goes on.
RECURSIVE Neighbors(_, _, _)
Neighbors(col, n, limit) ==
    IF n = 0 THEN [items |-> << >>, more |-> TRUE]
    ELSE LET before == Neighbors(col, n - 1, limit)
         IN IF ~before.more THEN before
            ELSE IF ~col[n].ok THEN before
            ELSE [items |-> Append(before.items, col[n]),
                  more |-> Len(before.items) + 1 < limit]

lessNever(a, b) == FALSE

\* The comparison of sort.Slice in nearestNeighbors.
less(a, b) == a.dist < b.dist

\* The orders sort.Slice can leave the items in: it is not stable.
Sorted(items) ==
    { s \in [DOMAIN items -> Records] :
        /\ \E f \in [DOMAIN items -> DOMAIN items] :
             /\ \A i, j \in DOMAIN items : i # j => f[i] # f[j]
             /\ \A i \in DOMAIN items : s[i] = items[f[i]]
        /\ \A i, j \in DOMAIN s : i < j => ~less(s[j], s[i]) }

\* The commands whose callback asks c.hasExpired before sw.writeObject.
AsksExpired == {"nearby", "within", "intersects"}

\* sw.writeObject with ignoreGlobMatch: the pattern is not looked at.
writeObjectIgnoreGlob(w, fieldsOk) ==
    LET r == writeObject([w EXCEPT !.globEverything = TRUE], TRUE, fieldsOk)
    IN [sw |-> [r.sw EXCEPT !.globEverything = w.globEverything],
        ret |-> r.ret]

\* The command up to the visit of the collection.  NEARBY without a radius
\* first collects its neighbours; the others hand every record to the
\* callback as the collection yields it.
QueryStart ==
    /\ qry.pc = "idle"
    /\ \E cmd \in QueryCmds, knn \in BOOLEAN, col \in SeqsUpTo(Records, MaxNear),
          cursor \in QueryCursors, limit \in QueryLimits :
         /\ knn => cmd = "nearby"
         /\ qry' = [pc |-> IF knn THEN "collecting" ELSE "visiting",
                    cmd |-> cmd, knn |-> knn, col |-> col,
                    items |-> IF knn THEN << >> ELSE col, i |-> 0,
                    sw |-> newScanWriter(outputIDs, "*", TRUE, cursor, limit),
                    written |-> << >>]
    /\ UNCHANGED qryRest

\* nearestNeighbors up to the sort.
knnCollect ==
    /\ qry.pc = "collecting"
    /\ qry' = [qry EXCEPT
                 !.items = Neighbors(qry.col, Len(qry.col),
                                     qry.sw.cursor + qry.sw.limit).items,
                 !.pc = "sorting"]
    /\ UNCHANGED qryRest

\* sort.Slice by distance.
knnSort ==
    /\ qry.pc = "sorting"
    /\ \E s \in Sorted(qry.items) :
         qry' = [qry EXCEPT !.items = s, !.pc = "visiting"]
    /\ UNCHANGED qryRest

\* The callback on the next record: iter of cmdNearby, the closures of
\* cmdWithinOrIntersects, those of cmdScan and cmdSearch.
QueryObject ==
    /\ qry.pc = "visiting"
    /\ qry.i < Len(qry.items)
    /\ \E rec \in {qry.items[qry.i + 1]} :
         IF qry.cmd \in AsksExpired /\ rec.expired
         THEN qry' = [qry EXCEPT !.i = @ + 1]
         ELSE \E r \in {IF qry.knn
                        THEN writeObjectIgnoreGlob(qry.sw, rec.ok)
                        ELSE writeObject(qry.sw, TRUE, rec.ok)} :
                qry' = [qry EXCEPT
                          !.i = @ + 1,
                          !.sw = r.sw,
                          !.written = IF r.sw.values > qry.sw.values
                                      THEN Append(@, rec) ELSE @,
                          !.pc = IF r.ret THEN "visiting" ELSE "stopped"]
    /\ UNCHANGED qryRest

\* sw.writeFoot().
QueryFoot ==
    /\ \/ qry.pc = "stopped"
       \/ qry.pc = "visiting" /\ qry.i = Len(qry.items)
    /\ qry' = [qry EXCEPT !.pc = "done"]
    /\ UNCHANGED qryRest

NextQuery ==
    \/ QueryStart
    \/ knnCollect
    \/ knnSort
    \/ QueryObject
    \/ QueryFoot

SpecQuery == InitCore /\ [][NextQuery]_vars

(***************************************************************************)
(* Vocabulary of the properties.                                           *)
(***************************************************************************)
\* A step in which handleInputCommand handled a message.
Handled == out = Idle /\ out' # Idle

\* Event e is among the events of handling o's message.
EvIn(o, e) == \E i \in DOMAIN o.events : o.events[i] = e

\* Event a comes before event b among the events of handling o's message.
EvBefore(o, a, b) ==
    \E i, j \in DOMAIN o.events :
        i < j /\ o.events[i] = a /\ o.events[j] = b

\* Replies that report an error.
IsError(reply) == reply \notin {"", "ok", "pong"}

\* The write class as the specification lists it.
SpecWriteClass ==
    {"set", "fset", "del", "pdel", "drop", "flushdb", "sethook", "delhook",
     "pdelhook", "expire", "persist", "jset", "jdel"}

\* The read class as the specification lists it.
SpecReadClass ==
    {"get", "keys", "scan", "nearby", "within", "intersects", "hooks",
     "search", "ttl", "bounds", "server", "info", "type", "jget", "evalro",
     "evalrosha"}

\* The dev class as the specification lists it.
SpecDevClass == {"massinsert", "sleep", "aofshrink", "shutdown", "client"}

(***************************************************************************)
(* Properties of Spec.                                                     *)
(***************************************************************************)
\* C1: each write-class command (SET, FSET, DEL, PDEL, DROP, FLUSHDB,
\* SETHOOK, DELHOOK, PDELHOOK, EXPIRE, PERSIST, JSET, JDEL) that reaches the
\* locking switch is rejected with "not the leader" when a follow host is
\* configured, otherwise with "read only" when read-only mode is set; the
\* rejected command never reaches its handler and leaves the collection
\* store, the expiration index, the hook registry and the AOF unchanged.
C1_WriteClassRejected ==
    [][ ( /\ Handled
          /\ EvIn(out', "switch")
          /\ out'.msg.Command \in SpecWriteClass
          /\ followHost # "" \/ readOnly )
        => ( /\ out'.reply = IF followHost # "" THEN "not the leader"
                             ELSE "read only"
             /\ ~EvIn(out', "handler")
             /\ UNCHANGED <<cols, expires, hooks, aof>> ) ]_vars

\* C2: for every write-class command with the AOF enabled whose handler
\* ran: a success reply is written only after the command's record was
\* appended to the AOF, and a failed append that is not an AOF-hook error
\* ends the process without a reply.
C2_SuccessIsJournalled ==
    [][ ( /\ Handled
          /\ appendonly
          /\ out'.msg.Command \in SpecWriteClass
          /\ EvIn(out', "handler")
          /\ out'.herr = "" )
        => ( /\ out'.reply = "ok"
                => /\ aof' = Append(aof, Values(out'.msg))
                   /\ EvBefore(out', "aof", "reply")
             /\ out'.fault = "aofio"
                => /\ ~alive'
                   /\ ~EvIn(out', "reply") ) ]_vars

\* C3: when the handler of a write-class command returns an error, the
\* router appends nothing to the AOF or the shrink log, broadcasts nothing
\* to hooks or live connections, and writes the error text to the client.
C3_HandlerErrorNotJournalled ==
    [][ ( /\ Handled
          /\ out'.msg.Command \in SpecWriteClass
          /\ out'.herr # "" )
        => ( /\ aof' = aof
             /\ shrinklog' = shrinklog
             /\ ~EvIn(out', "aof")
             /\ ~EvIn(out', "hooks")
             /\ ~EvIn(out', "live")
             /\ out'.reply = out'.herr
             /\ EvBefore(out', "handler", "reply")
             /\ alive' ) ]_vars

\* C3 witness: with the AOF enabled, FSET on an id that does not exist was
\* answered with the handler's error.
C3_Witness ==
    /\ appendonly
    /\ out.msg.Command = "fset"
    /\ out.herr = "id not found"
    /\ out.reply = "id not found"
    /\ EvIn(out, "Lock")

\* C4: a command executed under the shared lock leaves the collection
\* store, the expiration index and the hook registry unchanged, appends
\* nothing to the AOF and enqueues nothing to hooks.
C4_SharedLockReadsOnly ==
    [][ ( /\ Handled
          /\ EvIn(out', "RLock") )
        => ( /\ UNCHANGED <<cols, expires, hooks, aof>>
             /\ ~EvIn(out', "aof")
             /\ ~EvIn(out', "hooks") ) ]_vars

\* C5: while a follow host is configured and the catch-up has never
\* completed, every read-class command that reaches the locking switch is
\* rejected with "catching up to leader" and its handler does not run; in
\* every other case its handler runs.
C5_ReadsWaitForCatchUp ==
    [][ ( /\ Handled
          /\ EvIn(out', "switch")
          /\ out'.msg.Command \in SpecReadClass )
        => IF followHost # "" /\ ~fcuponce
           THEN /\ out'.reply = "catching up to leader"
                /\ ~EvIn(out', "handler")
                /\ UNCHANGED dataVars
           ELSE /\ EvIn(out', "handler")
                /\ out'.reply # "catching up to leader" ]_vars

\* C5 witness: GET was rejected on a follower that never caught up.
C5_Witness ==
    /\ followHost # ""
    /\ ~fcuponce
    /\ out.msg.Command = "get"
    /\ out.reply = "catching up to leader"
    /\ EvIn(out, "RLock")

\* The message presents a password: it is AUTH or carries a token.
Presented(msg) == msg.Command = "auth" \/ msg.Auth # NoPass

\* The password a message presents: its token, else the argument of AUTH.
PasswordOf(msg) == IF msg.Auth # NoPass THEN msg.Auth ELSE msg.Password

\* C6 as stated: with requirepass set and the connection unauthenticated,
\* every message that is not AUTH and carries no token gets an error and has
\* no effect, whatever its command name.
C6_OnlyAuthAccepted ==
    [][ ( /\ Handled
          /\ requirePass # NoPass
          /\ ~authenticated
          /\ ~Presented(out'.msg) )
        => ( /\ IsError(out'.reply)
             /\ ~EvIn(out', "handler")
             /\ UNCHANGED <<dataVars, fcuponce, shrinking, authenticated>> )
      ]_vars

\* C6 amended: with requirepass set and the connection unauthenticated, a
\* message that is not AUTH and carries no token has no effect; it gets the
\* error "authentication required", except PING and ECHO, which are
\* answered before the authentication check.
C6_OnlyAuthPingEchoAccepted ==
    [][ ( /\ Handled
          /\ requirePass # NoPass
          /\ ~authenticated
          /\ ~Presented(out'.msg) )
        => ( /\ out'.events = <<"reply">>
             /\ UNCHANGED <<dataVars, fcuponce, shrinking, authenticated>>
             /\ IF out'.msg.Command \in {"ping", "echo"}
                THEN out'.reply = "pong"
                ELSE out'.reply = "authentication required" ) ]_vars

\* C6 witness: FLUSHDB without credentials was refused on an unauthenticated
\* connection.
C6_Witness ==
    /\ requirePass # NoPass
    /\ ~authenticated
    /\ out.msg.Command = "flushdb"
    /\ out.msg.Auth = NoPass
    /\ out.reply = "authentication required"

\* C7 as stated: a message that presents a password different from
\* requirepass gets "invalid password", leaves the authenticated flag as it
\* was and is processed no further; the flag becomes true only in handling
\* a message whose password equals requirepass.
C7_MismatchRejected ==
    [][ Handled
        => ( /\ ( Presented(out'.msg) /\ PasswordOf(out'.msg) # requirePass )
                => ( /\ out'.reply = "invalid password"
                     /\ authenticated' = authenticated
                     /\ out'.events = <<"reply">>
                     /\ UNCHANGED dataVars )
             /\ ( authenticated' /\ ~authenticated )
                => ( /\ Presented(out'.msg)
                     /\ PasswordOf(out'.msg) = requirePass ) ) ]_vars

\* The authentication block compares the password of the message: the
\* message is not PING or ECHO, and it is AUTH or, requirepass being set,
\* carries a token on an unauthenticated connection.
Compared(msg) ==
    /\ msg.Command \notin {"ping", "echo"}
    /\ \/ msg.Command = "auth"
       \/ ~authenticated /\ requirePass # NoPass /\ msg.Auth # NoPass

\* C7 amended: when the authentication block compares a password that,
\* with surrounding white space trimmed, differs from requirepass, the
\* message gets "invalid password", the authenticated flag stays as it was
\* and nothing more of the message is processed; the flag becomes true only
\* in handling a message whose trimmed password equals a set requirepass.
C7_TrimmedMismatchRejected ==
    [][ Handled
        => ( /\ ( /\ Compared(out'.msg)
                  /\ TrimSpace(PasswordOf(out'.msg)) # requirePass )
                => ( /\ out'.reply = "invalid password"
                     /\ authenticated' = authenticated
                     /\ out'.events = <<"reply">>
                     /\ UNCHANGED dataVars )
             /\ ( authenticated' /\ ~authenticated )
                => ( /\ Compared(out'.msg)
                     /\ requirePass # NoPass
                     /\ TrimSpace(PasswordOf(out'.msg)) = requirePass ) )
      ]_vars

\* C7 witness: AUTH with a wrong password was refused and the connection
\* is still unauthenticated.
C7_Witness ==
    /\ requirePass = <<"s">>
    /\ out.msg.Command = "auth"
    /\ out.msg.Auth = NoPass
    /\ out.msg.Password = <<"x">>
    /\ out.reply = "invalid password"
    /\ ~authenticated

\* C8 as stated: with dev mode off, each of MASSINSERT, SLEEP, AOFSHRINK,
\* SHUTDOWN and CLIENT fails and has no effect.
C8_DevClassGated ==
    [][ ( /\ Handled
          /\ EvIn(out', "switch")
          /\ ~devMode
          /\ out'.msg.Command \in SpecDevClass )
        => ( /\ IsError(out'.reply)
             /\ ~EvIn(out', "go aofshrink")
             /\ UNCHANGED dataVars ) ]_vars

\* C8 amended: with dev mode off, each of MASSINSERT, SLEEP and SHUTDOWN
\* fails with "unknown command" and has no effect; AOFSHRINK still starts a
\* shrink and CLIENT still runs its handler.
C8_DevOperationsGated ==
    [][ ( /\ Handled
          /\ EvIn(out', "switch")
          /\ ~devMode )
        => ( /\ out'.msg.Command \in {"massinsert", "sleep", "shutdown"}
                => ( /\ out'.reply = "unknown command"
                     /\ out'.herr = "unknown command"
                     /\ ~EvIn(out', "fatal")
                     /\ UNCHANGED dataVars )
             /\ out'.msg.Command = "aofshrink"
                => ( /\ EvIn(out', "go aofshrink")
                     /\ out'.reply = "ok" )
             /\ out'.msg.Command = "client"
                => out'.herr # "unknown command" ) ]_vars

\* C8 witness: MASSINSERT was refused with dev mode off.
C8_Witness ==
    /\ ~devMode
    /\ out.msg.Command = "massinsert"
    /\ out.reply = "unknown command"
    /\ EvIn(out, "Lock")
    /\ alive

(***************************************************************************)
(* Properties of SpecLock.                                                 *)
(***************************************************************************)
\* Client c is between taking the lock and returning, with a write-class
\* command.
InWriteSection(c) ==
    pc[c] \in {"locked", "handled", "done"}
    /\ cur[c].Command \in SpecWriteClass

\* C9: no two clients are at once between lock and return with write-class
\* commands, and, with the AOF enabled, whenever no write-class command is
\* in progress the commands applied to the store are, in order, the records
\* appended to the AOF.
C9_WritesTotallyOrdered ==
    /\ \A c, d \in Clients :
          c # d => ~(InWriteSection(c) /\ InWriteSection(d))
    /\ ( appendonly /\ \A c \in Clients : ~InWriteSection(c) )
       => applied = journal

\* An aofshrink goroutine that passed the test of the shrinking flag and has
\* not yet run its deferred reset.
Shrinking(s) ==
    spc[s] \in {"keys", "hooks", "swap", "swapping", "deferred", "failed"}

\* C10: at most one aofshrink is past the test of the shrinking flag at a
\* time, the flag is set exactly while one is, and an aofshrink that starts
\* while the flag is set returns and leaves the flag, the shrink log, the
\* shrink file and the live AOF as they were.
C10_OneShrinkAtATime ==
    [][ /\ Cardinality({s \in Shrinkers : Shrinking(s)'}) <= 1
        /\ shrinking' <=> \E s \in Shrinkers : Shrinking(s)'
        /\ \A s \in Shrinkers :
              ( spc[s] = "spawned" /\ spc'[s] # "spawned" /\ shrinking )
              => ( /\ spc'[s] = "skipped"
                   /\ UNCHANGED <<shrinking, shrinklog, shrinkfile, aof>> )
      ]_vars

\* C10 witness: an aofshrink returned because another one, still running,
\* had set the flag.
C10_Witness ==
    /\ shrinking
    /\ \E s, t \in Shrinkers :
          /\ spc[s] = "skipped"
          /\ Shrinking(t)
          /\ spc[t] # "deferred"

(***************************************************************************)
(* Replaying an AOF into an empty server.                                  *)
(***************************************************************************)
\* The controller state of a server that has loaded nothing.
EmptyStore ==
    [Cur EXCEPT !.cols = [i \in Ids |-> NoObj], !.expires = {},
                !.hooks = {}, !.aof = << >>, !.shrinklog = << >>]

\* One record of the AOF run through the dispatch table.  The records
\* aofshrink writes for the objects carry the object; the records writeAOF
\* appends are the tokens of the message.
ReplayRecord(D, rec) ==
    IF Len(rec) = 3
    THEN [D EXCEPT !.cols[rec[2]] = rec[3], !.expires = D.expires \ {rec[2]}]
    ELSE Command(D, [NoMsg EXCEPT !.Command = rec[1], !.Arg = rec[2]],
                 "none").D

RECURSIVE Replay(_, _)
Replay(D, recs) ==
    IF recs = << >> THEN D
    ELSE Replay(ReplayRecord(D, Head(recs)), Tail(recs))

\* The step in which aofshrink goroutine s makes the shrink file the live
\* AOF.
Swapped(s) == spc[s] = "swapping" /\ spc'[s] = "deferred"

\* C11: replaying the AOF a shrink installs yields the objects of the
\* store and the hook names the server holds in memory at the swap.
C11_InstalledAofReplaysToMemory ==
    [][ \A s \in Shrinkers :
          Swapped(s)
          => ( /\ Replay(EmptyStore, aof').cols = cols'
               /\ Replay(EmptyStore, aof').hooks = hooks' ) ]_vars

\* Sequence a ends sequence b.
IsSuffix(a, b) ==
    /\ Len(a) <= Len(b)
    /\ SubSeq(b, Len(b) - Len(a) + 1, Len(b)) = a

C13_FailedShrinkLeavesLiveAof ==
    [][ \A s \in Shrinkers :
          /\ ( spc[s] # "failed" /\ spc'[s] = "failed" )
             => ( /\ aof' = aof
                  /\ IsSuffix(shrinklog', aof')
                  /\ mu'.w # s )
          /\ ( spc[s] \in {"deferred", "failed"} /\ spc'[s] # spc[s] )
             => ( /\ spc'[s] \in {"returned", "aborted"}
                  /\ ~shrinking'
                  /\ shrinklog' = << >>
                  /\ spc[s] = "failed" => aof' = aof ) ]_vars

\* C13 witness: a shrink failed while a write was journalled, its deferred
\* function has run, and the live AOF still is the whole journal.
C13_Witness ==
    /\ \E s \in Shrinkers : spc[s] = "aborted"
    /\ ~shrinking
    /\ shrinklog = << >>
    /\ aof # << >>
    /\ aof = journal

(***************************************************************************)
(* Properties of SpecHookShrink.                                           *)
(***************************************************************************)
\* The step in which the pass of aofshrink handles the next hook name.
EmitStep ==
    /\ hshrink.pc = "hooks"
    /\ hshrink'.pc = "hooks"
    /\ hshrink.hnames # << >>
    /\ hshrink'.hnames = Tail(hshrink.hnames)

\* C14: the record the pass appends for a registered hook replays, through
\* cmdSetHook, to a hook that Equals the registered one (name, key,
\* endpoints in order, sorted metas, command tokens); the names of the
\* records in the buffer ascend; and for a name that is no longer
\* registered at its turn nothing is appended.
C14_EmittedRecordEqualsHook ==
    [][ EmitStep
        => LET name == Head(hshrink.hnames)
               buf == hshrink'.aofbuf
           IN IF hreg[name] = 0 THEN buf = hshrink.aofbuf
              ELSE /\ Len(buf) = Len(hshrink.aofbuf) + 1
                   /\ ParseSetHook(buf[Len(buf)]).err = ""
                   /\ Equals(hobj[hreg[name]],
                             ParseSetHook(buf[Len(buf)]).hook)
                   /\ \A i \in 1 .. Len(buf) - 1 :
                         StrLess(buf[i][2], buf[Len(buf)][2]) ]_vars

(***************************************************************************)
(* Properties of SpecHooks.                                                *)
(***************************************************************************)
\* A step in which a hook command of the given verb was handled.
HookHandled(verb) ==
    /\ hout'.Values # << >>
    /\ hout'.Values[1] = verb
    /\ ~UNCHANGED <<hout, hreg>>

\* The hook objects other than those in slots are as they were.
OtherHooksUntouched(slots) ==
    \A i \in HookSlots \ slots : hobj'[i] = hobj[i]

\* Every registered hook is open and not closed.
RegisteredOpen ==
    \A n \in HookNameSet :
       hreg[n] # 0 => ( hobj[hreg[n]].opened /\ ~hobj[hreg[n]].closed )

\* C15: a SETHOOK whose name has a structurally equal hook (key, endpoints
\* in order, sorted metas, command tokens) leaves the registry and the hook
\* object as they are, calls only Signal on that object and replies 0 in
\* RESP; any other accepted SETHOOK closes the prior hook of the name, if
\* there is one, takes it out of the registry, and then registers and
\* opens a new hook object, replying 1 in RESP.
C15_EqualHookKeptElseReplaced ==
    [][ ( HookHandled("sethook") /\ hout'.reply.kind # "err" )
        => \E hook \in {ParseSetHook(hout'.Values).hook} :
           LET name == hook.Name
               old == hreg[name]
               new == hreg'[name]
           IN IF old # 0 /\ Equals(hobj[old], hook)
              THEN /\ UNCHANGED <<hreg, hobj, hcols>>
                   /\ hout'.ev = << <<"signal", old>> >>
                   /\ hout'.OutputType = "resp" => hout'.reply = IntReply(0)
              ELSE /\ new # 0 /\ new # old
                   /\ hobj[new] = NoHook
                   /\ Equals(hobj'[new], hook)
                   /\ hobj'[new].opened /\ ~hobj'[new].closed
                   /\ \A n \in HookNameSet \ {name} : hreg'[n] = hreg[n]
                   /\ old # 0
                      => ( /\ hobj'[old] = [hobj[old] EXCEPT !.closed = TRUE]
                           /\ hout'.ev = << <<"close", old>>, <<"open", new>> >>
                           /\ OtherHooksUntouched({old, new}) )
                   /\ old = 0
                      => ( /\ hout'.ev = << <<"open", new>> >>
                           /\ OtherHooksUntouched({new}) )
                   /\ hout'.OutputType = "resp" => hout'.reply = IntReply(1)
      ]_vars

\* C15 witness: a SETHOOK that wrote its META pairs and its endpoints found
\* an equal hook under its name, signalled it and replied 0.
C15_Witness ==
    /\ hout.Values # << >>
    /\ hout.Values[1] = "sethook"
    /\ hout.reply = IntReply(0)
    /\ hreg[hout.Values[2]] # 0
    /\ hout.ev = << <<"signal", hreg[hout.Values[2]]>> >>
    /\ hobj[hreg[hout.Values[2]]].Metas # << >>
    /\ hobj[hreg[hout.Values[2]]].opened
    /\ ~hobj[hreg[hout.Values[2]]].closed

\* C19: DELHOOK takes exactly the hook of its name out of the registry and
\* replies 1 in RESP if there was one, else 0; PDELHOOK takes out exactly
\* the hooks whose names match the glob and replies their number; every
\* hook taken out is closed, every other hook object is as it was, and the
\* hooks still registered are open.
C19_DelHooksExact ==
    [][ /\ HookHandled("delhook")
           => LET name == hout'.Values[2]
                  old == hreg[name]
              IN /\ hreg' = [hreg EXCEPT ![name] = 0]
                 /\ hout'.OutputType = "resp"
                    => hout'.reply = IntReply(IF old # 0 THEN 1 ELSE 0)
                 /\ old # 0 => ( /\ hobj'[old].closed
                                 /\ hout'.ev = << <<"close", old>> >> )
                 /\ OtherHooksUntouched({old})
                 /\ RegisteredOpen'
        /\ HookHandled("pdelhook")
           => LET matched == {n \in HookNameSet :
                                hreg[n] # 0 /\ GlobMatch(hout'.Values[2], n)}
              IN /\ hreg' = [n \in HookNameSet |->
                               IF n \in matched THEN 0 ELSE hreg[n]]
                 /\ hout'.OutputType = "resp"
                    => hout'.reply = IntReply(Cardinality(matched))
                 /\ \A n \in matched : hobj'[hreg[n]].closed
                 /\ OtherHooksUntouched({hreg[n] : n \in matched})
                 /\ RegisteredOpen' ]_vars

\* C19 witness: with two hooks registered, a PDELHOOK removed and closed
\* the one its pattern matches and left the other registered and open.
C19_Witness ==
    /\ hout.Values # << >>
    /\ hout.Values[1] = "pdelhook"
    /\ hout.reply = IntReply(1)
    /\ \E n \in HookNameSet :
          /\ hreg[n] # 0
          /\ hobj[hreg[n]].opened /\ ~hobj[hreg[n]].closed
          /\ ~GlobMatch(hout.Values[2], n)
    /\ \E i \in HookSlots :
          hobj[i].closed /\ GlobMatch(hout.Values[2], hobj[i].Name)

(***************************************************************************)
(* Properties of SpecQueue.                                                *)
(***************************************************************************)
\* C16: every successful send of an entry is made by the task of the hook
\* the entry was enqueued for, and the round of a task holds only entries
\* of its own hook.
C16_OnlyOwnEntries ==
    /\ \A k \in DOMAIN sent : sent[k].by = sent[k].hook
    /\ \A h \in QueueHooks :
          \A k \in DOMAIN task[h].keys : task[h].keys[k].hook = h

\* The entry of a round at position k, with the ticks it has left now.
Held(r, k) == [r.keys[k] EXCEPT !.ttl = r.keys[k].ttl - r.elapsed]

\* C17: a round of hook h first takes every entry of h out of the queue,
\* in index order; it sends the entries one after the other, each to the
\* endpoints of h from the first on until a send succeeds; and when the
\* last endpoint fails for entry i the round puts back entry i and the
\* entries after it, each with the ticks it had when taken less the ticks
\* the round ran and only if that is positive, puts back none of the
\* entries before i, and ends with the task set to retry.
C17_DeliveryRound ==
    [][ \A h \in QueueHooks :
          LET r == task[h]
              n == task'[h]
          IN /\ ( r.pc \in {"wait", "retry"} /\ n # r )
                => ( /\ \A e \in queue :
                           e.hook = h
                           => ( /\ e \notin queue'
                                /\ \E k \in DOMAIN n.keys : n.keys[k] = e )
                     /\ \A j, k \in DOMAIN n.keys :
                           j < k => EntryLess(n.keys[j], n.keys[k])
                     /\ n.keys # << >>
                        => ( n.pc = "sending" /\ n.i = 1 /\ n.ep = 1
                             /\ n.elapsed = 0 )
                     /\ n.keys = << >> => n.pc = "wait"
                     /\ sent' = sent )
             /\ ( r.pc = "sending" /\ n.pc = "sending" /\ n.i = r.i
                  /\ n.ep # r.ep )
                => ( n.ep = r.ep + 1 /\ sent' = sent /\ queue' = queue )
             /\ ( r.pc = "sending"
                  /\ ( n.pc = "wait" \/ ( n.pc = "sending" /\ n.i # r.i ) ) )
                => ( /\ sent' = Append(sent,
                                       [idx |-> r.keys[r.i].idx,
                                        hook |-> r.keys[r.i].hook,
                                        by |-> h,
                                        endpoint |-> HookEndpoints(h)[r.ep]])
                     /\ queue' = queue
                     /\ IF r.i < Len(r.keys)
                        THEN n.pc = "sending" /\ n.i = r.i + 1 /\ n.ep = 1
                        ELSE n.pc = "wait" )
             /\ ( r.pc = "sending" /\ n.pc = "retry" )
                => ( /\ r.ep = Len(HookEndpoints(h))
                     /\ sent' = sent
                     /\ queue' = queue
                                  \cup { Held(r, k) :
                                           k \in {j \in r.i .. Len(r.keys) :
                                                    Held(r, j).ttl > 0} }
                     /\ \A k \in 1 .. r.i - 1 :
                           \A e \in queue' : e.idx # r.keys[k].idx ) ]_vars

\* C17 witness: a round sent its first entry, then a tick passed and every
\* endpoint failed for a later entry, which is back in the queue with fewer
\* ticks; the task is set to retry.
C17_Witness ==
    \E h \in QueueHooks :
       /\ task[h].pc = "retry"
       /\ Len(HookEndpoints(h)) > 1
       /\ \E k \in DOMAIN sent :
             /\ sent[k].by = h
             /\ \E e \in queue :
                   /\ e.hook = h
                   /\ e.idx > sent[k].idx
                   /\ e.ttl < HookTTL

\* The entries that are pending and not expired: those in the queue and
\* those a round holds and has not sent.
PendingEntries ==
    queue
    \cup UNION { { Held(task[h], k) :
                     k \in {j \in DOMAIN task[h].keys :
                              j >= task[h].i /\ Held(task[h], j).ttl > 0} } :
                   h \in {g \in QueueHooks : task[g].pc = "sending"} }

\* C18: when a payload is sent with success, no payload of the same hook
\* with a lower index is pending and unexpired.
C18_SentInCommitOrder ==
    [][ sent' # sent
        => LET s == sent'[Len(sent')]
           IN \A e \in PendingEntries :
                 ~( e.hook = s.hook /\ e.idx < s.idx ) ]_vars

(***************************************************************************)
(* Properties of SpecScan.                                                 *)
(***************************************************************************)
\* The limit L of the scan under way: the one asked for, or when 0 was
\* asked for 100, or none for a COUNT.
ScanL ==
    IF scan.limit # 0 THEN scan.limit
    ELSE IF sw.output = outputCount THEN MaxUint64 ELSE limitItems

\* C20: a scan never writes more than L items, and the cursor in its foot
\* is the cursor asked for plus the items written when exactly L items
\* were written, and 0 otherwise.
C20_CursorOfNextPage ==
    /\ scan.pc # "idle" => sw.values <= ScanL
    /\ ( scan.pc = "done" /\ scan.foot.cursor # NoCursor )
       => scan.foot.cursor = IF sw.values = ScanL
                             THEN scan.cursor + sw.values
                             ELSE 0

\* C20 witness: a scan of ids with cursor 2 and no limit asked for wrote
\* 100 items and its foot has cursor 102.
C20_Witness ==
    /\ scan.pc = "done"
    /\ scan.limit = 0
    /\ scan.cursor = 2
    /\ sw.output = outputIDs
    /\ sw.values = 100
    /\ scan.foot.cursor = 102

\* C21: a record that fails the glob or a WHERE, WHEREIN or WHEREEVAL
\* clause is not written and takes nothing of the cursor; a record that
\* passes them all has as rank the count of passing records up to it and
\* is written, at the step that visits it, exactly when its rank is above
\* the cursor and at most the cursor plus L; and a scan that stops leaves
\* behind no record of such a rank.
C21_EmitsPassingRanks ==
    [][ ( /\ scan.pc = "scanning"
          /\ scan'.iterated = scan.iterated + 1
          /\ sw.output # outputCount )
        => LET passed == scan'.fails = "none"
               rank == sw.count + 1
           IN /\ sw'.count = IF passed THEN rank ELSE sw.count
              /\ sw'.values = IF /\ passed
                                 /\ rank > scan.cursor
                                 /\ rank <= scan.cursor + ScanL
                              THEN sw.values + 1
                              ELSE sw.values
              /\ scan'.pc = "stopped"
                 => \/ sw'.count = scan.cursor + ScanL
                    \/ sw.globSingle /\ passed ]_vars

\* C21 witness: a scan with cursor 2 and limit 3 has visited records that
\* failed the glob and records that failed a WHERE clause among five that
\* passed, and has written three items.
C21_Witness ==
    /\ scan.pc = "stopped"
    /\ scan.cursor = 2
    /\ scan.limit = 3
    /\ scan.clauses # {}
    /\ ~sw.globEverything
    /\ sw.output = outputIDs
    /\ sw.count = 5
    /\ sw.values = 3
    /\ scan.iterated >= 8

(***************************************************************************)
(* Properties of SpecClient.                                               *)
(***************************************************************************)
\* The sockets a CLIENT command closed.
KillCloses(ev) == {ev[i].conn : i \in {j \in DOMAIN ev : ev[j].op = "close"}}

\* C22: a CLIENT KILL that answers OK closes the socket of one connection
\* of c.conns, which has the id or the address asked for, and of no other;
\* when that connection is the caller, OK is written to its open socket
\* before the close; and when no connection of c.conns has the id or the
\* address asked for, the answer is 'No such client' and no socket is
\* closed.
C22_KillClosesTheTarget ==
    [][ ( kill' # kill /\ Len(kill'.values) >= 3
          /\ ToLower(kill'.values[2]) = KillTok )
        => LET k == kill'
               sel == KillArgs(k.values, 3, NoSel)
               asked(t) == /\ conns[t].reg
                           /\ \/ IdString(conns[t].id) = sel.id
                              \/ RemoteAddr(t) = sel.addr
               shut == {t \in ConnSet : conns[t].open /\ ~conns'[t].open}
           IN /\ k.reply = OkReply
                 => /\ \E t \in ConnSet :
                          /\ asked(t)
                          /\ KillCloses(k.events) = {t}
                          /\ ~conns'[t].open
                          /\ shut \subseteq {t}
                          /\ t = k.conn
                             => /\ k.events[1] =
                                      SockEvent("write", t, TRUE)
                                /\ k.events[2] =
                                      SockEvent("close", t, TRUE)
              /\ k.reply # OkReply
                 => KillCloses(k.events) = {} /\ shut = {}
              /\ ( sel.err = "" /\ \A t \in ConnSet : ~asked(t) )
                 => k.reply = ErrReply("No such client") ]_vars

\* C22 witness: connection k1, with id 1, killed itself by id while k2 and
\* k3 were open; its socket is closed and theirs are open.
C22_Witness ==
    /\ kill.conn = "k1"
    /\ conns["k1"].id = 1
    /\ kill.reply = OkReply
    /\ Len(kill.events) = 3
    /\ ~conns["k1"].open
    /\ conns["k2"].open
    /\ conns["k3"].open

(***************************************************************************)
(* Properties of SpecLoops.                                                *)
(***************************************************************************)
\* C23: a background loop that took a tick of its ticker with its stop
\* flag set has returned: no loop takes a second tick with the flag set.
C23_LoopsStopWithinAPeriod ==
    \A l \in BackgroundLoops :
       ( StopSet(l) /\ loops[l].late >= 1 ) => loops[l].pc = "exited"

(***************************************************************************)
(* More properties of SpecHooks.                                           *)
(***************************************************************************)
\* The SETHOOK messages of the model that end with an error: no name, no
\* endpoints, a URL the endpoint manager rejects, a META without a value,
\* an unknown command, bad search arguments, and no FENCE.
SetHookErrors ==
    {"invalid number of arguments", "invalid argument",
     "missing FENCE argument"}

\* C29: a SETHOOK that ends with an error leaves c.hooks, c.hookcols and
\* every hook object as they were and calls no Close, Open or Signal.
C29_FailedSetHookChangesNothing ==
    [][ ( /\ hout' # hout
          /\ hout'.Values # << >>
          /\ hout'.Values[1] = "sethook"
          /\ hout'.reply.kind = "err" )
        => ( /\ hout'.reply.err \in SetHookErrors
             /\ UNCHANGED <<hreg, hobj, hcols>>
             /\ hout'.ev = << >> ) ]_vars

\* C29 witness: a SETHOOK of a registered name without FENCE ended with an
\* error, and the hook of the name is registered and open.
C29_Witness ==
    /\ hout.Values # << >>
    /\ hout.Values[1] = "sethook"
    /\ hout.reply = ErrReply("missing FENCE argument")
    /\ hreg[hout.Values[2]] # 0
    /\ hobj[hreg[hout.Values[2]]].opened
    /\ ~hobj[hreg[hout.Values[2]]].closed
    /\ hcols[hobj[hreg[hout.Values[2]]].Key][hout.Values[2]] # 0

\* C30: c.hookcols[key][name] holds a hook exactly when c.hooks[name] holds
\* a hook of that key, and then it is the same hook; and every hook of
\* c.hooks has been opened and not closed.
C30_HookMapsAgree ==
    /\ \A n \in HookNameSet, k \in HookKeys :
          /\ hcols[k][n] # 0 <=> ( hreg[n] # 0 /\ hobj[hreg[n]].Key = k )
          /\ hcols[k][n] # 0 => hcols[k][n] = hreg[n]
    /\ RegisteredOpen

\* C30 witness: a SETHOOK has replaced the hook of its name by one of
\* another key, and another hook is registered.
C30_Witness ==
    /\ Len(hout.ev) = 2
    /\ hout.ev[1][1] = "close"
    /\ hout.ev[2][1] = "open"
    /\ hobj[hout.ev[1][2]].Key # hobj[hout.ev[2][2]].Key
    /\ \A n \in HookNameSet : hreg[n] # 0

(***************************************************************************)
(* Properties of SpecStore and SpecCopy.                                   *)
(***************************************************************************)
\* C24: after any command, every id of the expiration index is an id of
\* the collection of the same key in c.cols; so a DEL, a DROP, a FLUSHDB
\* and a reset leave no deadline of what they removed.
C24_DeadlinesOfStoredIds ==
    \A key \in DOMAIN store.expires :
      \A id \in DOMAIN store.expires[key] :
        key \in DOMAIN store.cols /\ id \in store.cols[key]

\* C24 witness: the last command was a DEL that removed an id with a
\* deadline, and other ids have deadlines.
C24_Witness ==
    /\ trail.last = "del"
    /\ trail.cleared # {}
    /\ \A c \in trail.cleared : ~HasId(store, c[1], c[2])
    /\ Entries(store) # {}

\* The records the copy phase wrote to the file that was swapped in.
CopyRecords == 1 .. trail.copied

\* C25: at the swap, every id held by the store since the shrink began
\* has a SET record of the copy phase.
C25_HeldIdsAreCopied ==
    trail.swapped
      => \A c \in trail.stable :
           \E i \in CopyRecords :
             /\ shr.file[i].cmd = "set"
             /\ shr.file[i].key = c[1]
             /\ shr.file[i].id = c[2]

\* C25 witness: a swap after a copy of all the ids the store began with,
\* in two key batches and two id batches of the big collection, while a
\* client created a key before the one the second key batch began at.
C25_Witness ==
    /\ trail.swapped
    /\ trail.stable = Cells(InitStore)
    /\ trail.copied = Cardinality(Cells(InitStore))
    /\ \E i \in (trail.copied + 1) .. Len(shr.file) :
         shr.file[i].key = maxkeys + 1
    /\ \A i \in CopyRecords : shr.file[i].key # maxkeys + 1

\* C26: a step of aofshrink with c.mu held releases it, after at most 8
\* keys collected or at most 32 ids written.
C26_SmallBatches ==
    [][ ( cmu = "shrink" /\ shr' # shr )
        => ( /\ cmu' = ""
             /\ shr.pc = "keys" => Len(shr'.keys) <= 8
             /\ shr.pc = "ids" => Len(shr'.file) - Len(shr.file) <= 32 )
      ]_vars

\* C26 witness: c.mu is free between the two id batches of the big
\* collection, and a client has written an id there after the first.
C26_Witness ==
    /\ shr.pc = "ids"
    /\ cmu = ""
    /\ shr.keys # << >>
    /\ Head(shr.keys) = BigKey
    /\ shr.nextid = maxids + 2
    /\ HasId(store, BigKey, maxids + 1)
    /\ shr.shrinklog = <<Msg("set", BigKey, maxids + 1, "none")>>

\* A record that deletes or expires again the id of a cell.
Supersedes(rec, c) ==
    \/ rec.cmd = "flushdb"
    \/ rec.cmd = "drop" /\ rec.key = c[1]
    \/ /\ rec.cmd \in {"del", "expire"} \/ (rec.cmd = "set" /\ rec.ex # "none")
       /\ rec.key = c[1]
       /\ rec.id = c[2]

\* C27: at the swap, the SET record of every id copied with a deadline
\* carries an EX clause, or a later record of the file deletes the id or
\* gives it a deadline.
C27_DeadlineSurvivesShrink ==
    trail.swapped
      => \A c \in trail.deadlined :
           \E i \in CopyRecords :
             /\ shr.file[i].key = c[1]
             /\ shr.file[i].id = c[2]
             /\ \/ shr.file[i].ex # "none"
                \/ \E j \in (i + 1) .. Len(shr.file) :
                     Supersedes(shr.file[j], c)

\* C28: a shrink that began ends: c.shrinking is reset.
C28_ShrinkEnds == shr.shrinking ~> ~shr.shrinking

\* C28 witness: a shrink has ended after the swap, with a write of a
\* client journalled while it ran.
C28_Witness ==
    /\ ~shr.shrinking
    /\ shr.pc = "idle"
    /\ trail.swapped
    /\ trail.writes > 0
    /\ Len(shr.file) > trail.copied

\* C31: once Hook.Close has returned the manager of the hook starts no
\* round, neither reading the queue nor sending, and returns, from the wait
\* on the condition variable as from the retry sleep; Close on a closed
\* hook and Open on an opened hook change nothing, and a closed hook stays
\* closed.
C31_ClosedHookStops ==
    /\ [][\A h \in QueueHooks :
            /\ hk[h].closed =>
                 /\ hk'[h].closed
                 /\ hk'[h].pc \notin {"sending", "wait"}
                 /\ hk'[h].keys = {}
                 /\ hk[h].pc = "done" => hk'[h].pc = "done"
            /\ ( /\ ctl.call.hook = h
                 /\ ctl'.call = NoCall
                 /\ \/ ctl.call.kind = "close" /\ hk[h].closed
                    \/ ctl.call.kind = "open" /\ hk[h].opened )
               => hk' = hk]_vars
    /\ \A h \in QueueHooks :
         hk[h].closed ~> hk[h].pc \in {"off", "done"}

C31_Witness ==
    \E h \in QueueHooks, g \in QueueHooks :
      /\ hk[h].closed /\ hk[h].pc = "done"
      /\ hk[g].closed /\ hk[g].pc = "sleep"

\* The entries a behaviour of SpecManager can put into the queue.
QueueEntries == [hook : QueueHooks, idx : 1..MaxPayloads]

\* C32: no wake-up is lost: an entry put into the queue for an open hook
\* and followed by Signal is in the end read by a round of that hook,
\* unless the hook is closed or the TTL of the entry elapses first.
C32_NoLostWakeup ==
    \A e \in QueueEntries :
      (e \in hq /\ e \in hist.signalled)
        ~> (e \in hist.picked \/ hk[e.hook].closed \/ e \in hist.expired)

\* The holder of c.mu waits for h.mu, which the manager of the hook holds.
HolderWaitsHook(h) ==
    /\ ctl.call.kind \in HookCalls
    /\ ctl.call.hook = h
    /\ hk[h].mu

\* C33: the handlers, aofshrink and the managers do not deadlock: h.mu is
\* taken under c.mu and never the other way round, so the holder of c.mu
\* either can step or waits for a manager that can, and a manager that
\* holds h.mu can always step.
C33_NoDeadlock ==
    /\ ctl.mu \in {"", "router", "shrink"}
    /\ ctl.mu # "" =>
         \/ ENABLED (putEntry \/ callHook)
         \/ HolderWaitsHook(ctl.call.hook)
              /\ ENABLED ManagerSteps(ctl.call.hook)
    /\ \A h \in QueueHooks : hk[h].mu => ENABLED ManagerSteps(h)

C33_Witness ==
    \E h \in QueueHooks :
      /\ ctl.mu = "shrink"
      /\ HolderWaitsHook(h)
      /\ hk[h].pc = "locked"

\* C34: a handler of SETHOOK, DELHOOK or PDELHOOK, which holds c.mu, never
\* waits for a send of the manager of a hook: when it calls Close on a
\* hook, the manager of the hook is not in the sends of a round with h.mu.
C34_HandlersDoNotWaitForSends ==
    \A h \in QueueHooks :
      ~( /\ ctl.mu = "router"
         /\ ctl.call.kind = "close"
         /\ HolderWaitsHook(h)
         /\ hk[h].pc = "sending" )

\* C35: while a follow host is configured or read-only mode is set, no
\* client command changes the collection store or appends a record to the
\* AOF, whatever its name and whether dev mode is on or off.
C35_ReadOnlyStoreUntouched ==
    [][ ( /\ Handled
          /\ followHost # "" \/ readOnly )
        => UNCHANGED <<cols, aof>> ]_vars

\* READONLY with one argument, yes or no; the fault "handler" stands for a
\* message with more arguments.
WellFormedReadOnly(o) ==
    o.msg.Arg \in {"yes", "no"} /\ o.fault # "handler"

\* C36: READONLY yes and READONLY no are idempotent: after the command
\* read-only mode is what the argument says, and the config file is written
\* exactly when the mode changed; any other argument, or none, is an error
\* that changes nothing; READONLY reaches its handler also while read-only
\* mode is on or a follow host is set, and it never appends to the AOF.
C36_ReadOnlyCommand ==
    [][ ( /\ Handled
          /\ EvIn(out', "switch")
          /\ out'.msg.Command = "readonly" )
        => ( /\ EvIn(out', "handler")
             /\ aof' = aof
             /\ UNCHANGED <<followHost, cols, expires, hooks, shrinklog>>
             /\ WellFormedReadOnly(out')
                  => ( /\ readOnly' = (out'.msg.Arg = "yes")
                       /\ out'.herr = ""
                       /\ out'.reply = "ok"
                       /\ EvIn(out', "config write") <=> readOnly' # readOnly )
             /\ ~WellFormedReadOnly(out')
                  => ( /\ out'.herr \in {"invalid number of arguments",
                                         "invalid argument"}
                       /\ out'.reply = out'.herr
                       /\ ~EvIn(out', "config write")
                       /\ readOnly' = readOnly ) ) ]_vars

\* C36 witness: READONLY no was handled while read-only mode was on, and
\* switched it off with a write of the config file.
C36_Witness ==
    /\ out # Idle
    /\ out.msg.Command = "readonly"
    /\ out.msg.Arg = "no"
    /\ EvIn(out, "config write")
    /\ ~readOnly

(***************************************************************************)
(* Properties of SpecCount.                                                *)
(***************************************************************************)
\* C37: with COUNT output the count SCAN and SEARCH report has no record
\* that fails the glob or a WHERE, WHEREIN or WHEREEVAL clause of the
\* command: it is at most the records of the collection less those that
\* fail.
C37_CountsPassingRecords ==
    ( scan.pc = "done" /\ sw.output = outputCount )
      => scan.foot.count + scan.failed <= scan.size

\* C38: for COUNT output the count of the collection less the cursor, and
\* 0 when that is negative, is the count the visit of every record gives
\* when every record passes, for every size, cursor and limit.
C38_FastPathIsIteration ==
    ( /\ scan.pc = "done"
      /\ sw.output = outputCount
      /\ sw.globEverything
      /\ scan.failed = 0 )
      => scan.foot.count = FastCount(scan.size, scan.cursor)

(***************************************************************************)
(* Properties of SpecQuery.                                                *)
(***************************************************************************)
Accepted(r) == r.ok
Live(r) == ~r.expired

\* Sequences a and b hold the same records, each as often.
SameRecords(a, b) ==
    /\ Len(a) = Len(b)
    /\ \A r \in Records :
         Cardinality({ i \in DOMAIN a : a[i] = r })
           = Cardinality({ i \in DOMAIN b : b[i] = r })

\* C39: NEARBY without a radius collects the records the iterator yields
\* until cursor + limit of them have passed the filters, and writes them in
\* order of distance, never a nearer one after a farther one; it skips the
\* first cursor of them and writes at most limit.
C39_NearestInOrder ==
    ( qry.pc = "done" /\ qry.knn )
      => LET passed == SelectSeq(qry.col, Accepted)
             n == IF Len(passed) < qry.sw.cursor + qry.sw.limit
                  THEN Len(passed) ELSE qry.sw.cursor + qry.sw.limit
             live == SelectSeq(qry.items, Live)
             last == IF Len(live) < qry.sw.cursor + qry.sw.limit
                     THEN Len(live) ELSE qry.sw.cursor + qry.sw.limit
         IN /\ SameRecords(qry.items, SubSeq(passed, 1, n))
            /\ \A i, j \in DOMAIN qry.items :
                 i < j => qry.items[i].dist <= qry.items[j].dist
            /\ qry.written = SubSeq(live, qry.sw.cursor + 1, last)
            /\ Len(qry.written) <= qry.sw.limit
            /\ \A i, j \in DOMAIN qry.written :
                 i < j => qry.written[i].dist <= qry.written[j].dist

\* C39 witness: with cursor 1 and limit 2 the iterator yielded a farther
\* record before two nearer ones, and the two written are the second and
\* third in order of distance.
C39_Witness ==
    /\ qry.pc = "done" /\ qry.knn
    /\ qry.sw.cursor = 1 /\ qry.sw.limit = 2
    /\ Len(qry.col) = 3
    /\ qry.col[1].dist = 2 /\ qry.col[2].dist = 1 /\ qry.col[3].dist = 1
    /\ Len(qry.written) = 2
    /\ qry.written[1].dist = 1 /\ qry.written[2].dist = 2

\* C40: no query writes the id of a record whose deadline has passed, also
\* while the record is still stored: not SCAN and SEARCH, as not NEARBY,
\* WITHIN and INTERSECTS.
C40_NoExpiredIdReturned ==
    \A i \in DOMAIN qry.written : ~qry.written[i].expired
====
